---- MODULE Spec2Model ----
(***************************************************************************)
(* Model of the real-time voice pipeline of immerse-the-bay-beginner.      *)
(*                                                                         *)
(* Part 1: the transport, class WebSocketClient (api/websocketClient).     *)
(* The client object, the WebSocket objects it has constructed, the        *)
(* timers it has armed with window.setTimeout and the frames it has put on *)
(* the wire are the state.  Every public method and every event handler    *)
(* is one action; a method is written as an operator from client state to  *)
(* client state so that a handler that calls other methods (onopen calls   *)
(* the onOpen handlers and flushMessageQueue, which calls send) is one     *)
(* atomic step, as it is on the single-threaded event loop.                *)
(***************************************************************************)
EXTENDS Integers, Sequences, FiniteSets, TLC

\* ------------------------------------------------------------- bounds
\* WebSocket objects constructed over the lifetime of the client.
MaxSockets == 2
\* Messages ever passed to send() (by callers and by onOpen handlers).
MaxMsgs == 2
\* Largest value of the reconnect-attempt counter.
MaxAttempts == 6
\* Registered onOpen handlers.
MaxOpenHandlers == 1
\* Handlers ever registered with onMessage().
MaxHandlers == 2
\* Analysis ticks of one calibration phase.  The detector's calibrationTarget
\* is 100 (about 3 s); the state machine and the debounce depend on the target
\* being reached, not on its size, and the model calibrates over fewer ticks.
calibrationTarget == 3
\* Analysis timers of the detector alive at once (setInterval handles).
MaxIntervals == 2
\* Calls of startDetection() suspended in getUserMedia at once.
MaxPendingStarts == 1
\* Registrations of the coordinator's speech handler stacked on the detector.
MaxCallbacks == 2
\* Calls of MicrophoneCapture.start() suspended in getUserMedia at once.
MaxPendingCaptures == 2
\* Calls of MicrophoneCapture.stop() waiting for the audio context to close.
MaxClosing == 1
\* Output contexts the playback scheduler creates.
MaxContexts == 2
\* Chunks passed to playAudioChunk().
MaxChunks == 3
\* The longest chunk, in units of the output clock.
MaxDuration == 2
\* How far the clock of one output context runs.
MaxClock == 3
\* Reset timers of the inbound pipeline pending at once.
MaxResetTimers == 2
\* Frequency bins of the analyser (512 with the default fftSize).
frequencyBinCount == 1
\* Largest running RMS sum of the calibration.
MaxNoiseSum == 24
\* Samples in the buffer calculateRMS() measures (fftSize, 1024 by default).
MaxLen == 3

\* ---------------------------------------------------- program constants
baseDelay == 1000
maxReconnectDelay == 30000
\* VADConfig defaults
updateInterval == 30
minimumSpeechDuration == 100
hangoverTime == 300
\* RMS levels are in hundredths of full scale
rmsThresholdDefault == 3
minThreshold == 2
maxThreshold == 12
\* AudioPipeline
COMMIT_DEBOUNCE_MS == 300

NULL == 0
NoError == "none"

Min(a, b) == IF a <= b THEN a ELSE b

Max(a, b) == IF a >= b THEN a ELSE b

ConnectionStates == {"connecting", "connected", "disconnecting", "disconnected"}
\* WebSocket.readyState
ReadyStates == {"CONNECTING", "OPEN", "CLOSING", "CLOSED"}
\* What a registered onOpen handler does when it runs: it calls send() with a
\* new message.  A handler that calls no method of the client (the one
\* TherapyStateProvider registers resolves a promise) changes no state here
\* and is left out of the registry.
OpenHandlerKinds == {"sends"}

\* Two of the message types the inbound pipeline subscribes to.
MessageTypes == {"audio_chunk", "error"}
\* The registry after construction and after clear(): no list for any type.
NoHandlers == [t \in MessageTypes |-> <<>>]

VARIABLES
  ws,                \* the current WebSocket: index into sockets, NULL if none
  connectionState,
  messageQueue,      \* queued messages, each [id, ok]
  onOpenHandlers,    \* sequence of handler kinds, in registration order
  shouldReconnect,
  reconnectAttempts,
  reconnectTimer,    \* handle of the tracked timer, NULL if none
  manualDisconnect,
  sockets,           \* readyState of every WebSocket constructed so far
  timers,            \* timers pending in the runtime: [id, delay]
  timerSeq,          \* the handle window.setTimeout returned last, 0 before the first
  sent,              \* ids of the messages handed to WebSocket.send, in order
  msgSeq,            \* number of messages passed to send() so far
  thrown,            \* the method whose exception left the last step, or NoError
  unexpectedClosures,\* history: closures of the connection in a row, see SocketClose
  userDisabled       \* history: disableReconnect() called and not enableReconnect() since

\* The registry of inbound message handlers of the client.
VARIABLES
  messageHandlers,   \* type -> sequence of handlers [id, throws]
  handlerSeq,        \* number of handlers registered so far
  invoked            \* ids of the handlers the last message event called, in order

\* The voice activity detector and the runtime around it.  A timestamp taken
\* with Date.now() is kept as the time elapsed since it was taken, which is
\* all the detector computes from it (now - t); see Elapsed.
VARIABLES
  vadState,
  isSpeaking,
  speechStartTime,   \* NoTime for the detector's 0
  speechEndTime,
  updateIntervalId,  \* handle of the tracked analysis timer, NULL if none
  analyserNode,      \* TRUE while the analyser node and the buffers exist
  calibrationSamples,
  rmsThreshold,      \* config.rmsThreshold
  noiseFloorRMS,
  noiseFloorFrequency,
  intervals,         \* handles of the analysis timers alive in the runtime
  due,               \* analysis timers whose callback is due in this period
  pendingStarts,     \* calls of startDetection() waiting for getUserMedia
  vadEvents,         \* callbacks the last step fired: "start", "end"
  vadErrors,         \* calls of the error callback the last step made
  vadThrew,          \* the last step ended a startDetection() by throwing
  flaggedSince,      \* history: first tick of the run of flagged ticks up to now
  quietSince,        \* history: first tick of the run of non-flagged ticks up to now
  unmatchedStart     \* history: a speech-start fired and no speech-end since

\* The outbound coordinator (AudioPipeline), the microphone capture it
\* drives, the session signal it listens to, and the speech callbacks
\* registered on the detector.
VARIABLES
  therapyState,        \* TherapyStateController.currentState
  isRunning,
  isSpeechActive,
  commitDebounceTimer, \* handle of the tracked commit timer, NULL if none
  commitTimers,        \* commit timers pending in the runtime: [id, remaining]
  callbacks,           \* times the speech handler is wrapped into the detector's callbacks
  isCapturing,
  micStream,           \* the capture holds a media stream
  micContext,          \* the capture holds an audio context
  workletNode,         \* the capture holds a processing node
  onAudioChunk,        \* the frame callback of the capture is set
  micClosing,          \* stop() calls of the capture waiting for close()
  pendingCaptures,     \* pipeline starts suspended in the capture's getUserMedia
  calls,               \* what the last step called: messages sent, playback stopped
  startRejected,       \* the last step ended a startAudioPipeline() by throwing
  settling,            \* history: the speech-end no speech-start, stop or commit followed
  speechOpen,          \* history: a speech-start no speech-end or stop followed
  scene                \* history: how far an utterance has got, see SceneTick

\* The playback scheduler (audioPlayback): the output context with its
\* clock, the cursor of the schedule, and the sources not yet ended.
VARIABLES
  audioPlayer,    \* handle of the output context, NULL if none
  currentTime,    \* the clock of the output context, 0 if none
  nextPlayTime,
  activeSources,  \* sources neither ended nor cleared: [id, context, start, end]
  contextSeq,     \* output contexts created so far
  sourceSeq,      \* sources created so far
  scheduled,      \* history: the chunks scheduled since the last
                  \* stopAudioPlayback() or resetAudioPlayback(): [clock, start, end]
  cancelled       \* history: the last step was a call of stopAudioPlayback()

\* The inbound side (InboundAudioPipeline).
VARIABLES
  inboundState,   \* InboundAudioPipeline.state
  resetTimers,    \* timers armed by handleResponseDone() that have not fired
  interrupted     \* history: a speech-start stopped the playback of a response
                  \* under way and no response_started has arrived since

\* The sample buffer the analyser fills for one analysis and the level
\* calculateRMS() returns for it, in units of 1 / RmsOne.
VARIABLES
  timeDomainData, \* the samples of the last analysis, <<>> before the first
  measuredRms     \* calculateRMS(timeDomainData)

vars == <<ws, connectionState, messageQueue, onOpenHandlers, shouldReconnect,
          reconnectAttempts, reconnectTimer, manualDisconnect, sockets, timers,
          timerSeq, sent, msgSeq, thrown, unexpectedClosures, userDisabled>>

dispatchVars == <<messageHandlers, handlerSeq, invoked>>

vadVars == <<vadState, isSpeaking, speechStartTime, speechEndTime, updateIntervalId,
            analyserNode, calibrationSamples, rmsThreshold, noiseFloorRMS,
            noiseFloorFrequency, intervals, due, pendingStarts,
            vadEvents, vadErrors, vadThrew, flaggedSince, quietSince,
            unmatchedStart>>

pipelineVars == <<therapyState, isRunning, isSpeechActive, commitDebounceTimer,
                 commitTimers, callbacks, isCapturing, micStream, micContext,
                 workletNode, onAudioChunk, micClosing, pendingCaptures, calls,
                 startRejected, settling, speechOpen, scene>>

playbackVars == <<audioPlayer, currentTime, nextPlayTime, activeSources,
                 contextSeq, sourceSeq, scheduled, cancelled>>

inboundVars == <<inboundState, resetTimers, interrupted>>

signalVars == <<timeDomainData, measuredRms>>

\* what no method of the client writes
outsideClient == <<handlerSeq, invoked, vadVars, pipelineVars, playbackVars, inboundVars, signalVars>>

allVars == <<vars, dispatchVars, vadVars, pipelineVars, playbackVars, inboundVars,
            signalVars>>

\* The client and its runtime as one record, the argument of every method.
Client ==
  [ws |-> ws, connectionState |-> connectionState, messageQueue |-> messageQueue,
   onOpenHandlers |-> onOpenHandlers, shouldReconnect |-> shouldReconnect,
   reconnectAttempts |-> reconnectAttempts, reconnectTimer |-> reconnectTimer,
   manualDisconnect |-> manualDisconnect, sockets |-> sockets, timers |-> timers,
   timerSeq |-> timerSeq, sent |-> sent, msgSeq |-> msgSeq, thrown |-> NoError,
   messageHandlers |-> messageHandlers]

\* The step ends in client state S, within the bounds of the model.
Becomes(S) ==
  /\ Len(S.sockets) <= MaxSockets
  /\ S.msgSeq <= MaxMsgs
  /\ S.reconnectAttempts <= MaxAttempts
  /\ ws' = S.ws
  /\ connectionState' = S.connectionState
  /\ messageQueue' = S.messageQueue
  /\ onOpenHandlers' = S.onOpenHandlers
  /\ shouldReconnect' = S.shouldReconnect
  /\ reconnectAttempts' = S.reconnectAttempts
  /\ reconnectTimer' = S.reconnectTimer
  /\ manualDisconnect' = S.manualDisconnect
  /\ sockets' = S.sockets
  /\ timers' = S.timers
  /\ timerSeq' = S.timerSeq
  /\ sent' = S.sent
  /\ msgSeq' = S.msgSeq
  /\ thrown' = S.thrown
  /\ messageHandlers' = S.messageHandlers
  /\ UNCHANGED outsideClient

\* ------------------------------------------------------------ methods

\* clearTimeout(this.reconnectTimer)
ClearTimeout(S) == {t \in S.timers : t.id # S.reconnectTimer}

\* window.setTimeout returns a handle no pending timer has; it is also never the
\* handle of the call before, as the runtime counts its handles upwards.
NewHandle(S) ==
  CHOOSE h \in 1..(Cardinality(S.timers) + 2) :
    /\ h # S.timerSeq
    /\ \A t \in S.timers : t.id # h
    /\ \A g \in 1..(h - 1) : g = S.timerSeq \/ \E t \in S.timers : t.id = g

\* min(baseDelay * 2^attempts, maxReconnectDelay)
BackoffDelay(attempts) == Min(baseDelay * 2^attempts, maxReconnectDelay)

\* handleReconnect() computing the delay from the counter after incrementing it.
HandleReconnect_DelayAfterIncrement(S) ==
  IF ~S.shouldReconnect \/ S.manualDisconnect
  THEN S
  ELSE LET delay == BackoffDelay(S.reconnectAttempts + 1)
           kept == IF S.reconnectTimer # NULL THEN ClearTimeout(S) ELSE S.timers
           id == NewHandle(S)
       IN [S EXCEPT !.reconnectAttempts = @ + 1,
                    !.timers = kept \cup {[id |-> id, delay |-> delay]},
                    !.timerSeq = id,
                    !.reconnectTimer = id]

\* handleReconnect() without the clearTimeout of the timer it replaces.
HandleReconnect_Stacks(S) ==
  IF ~S.shouldReconnect \/ S.manualDisconnect
  THEN S
  ELSE LET delay == BackoffDelay(S.reconnectAttempts)
           id == NewHandle(S)
       IN [S EXCEPT !.reconnectAttempts = @ + 1,
                    !.timers = @ \cup {[id |-> id, delay |-> delay]},
                    !.timerSeq = id,
                    !.reconnectTimer = id]

\* handleReconnect()
HandleReconnect(S) ==
  IF ~S.shouldReconnect \/ S.manualDisconnect
  THEN S
  ELSE LET delay == BackoffDelay(S.reconnectAttempts)
           kept == IF S.reconnectTimer # NULL THEN ClearTimeout(S) ELSE S.timers
           id == NewHandle(S)
       IN [S EXCEPT !.reconnectAttempts = @ + 1,
                    !.timers = kept \cup {[id |-> id, delay |-> delay]},
                    !.timerSeq = id,
                    !.reconnectTimer = id]

\* connect(); createFails: new WebSocket(url) throws.
Connect(S, createFails) ==
  IF S.connectionState \in {"connected", "connecting"}
  THEN S
  ELSE LET S1 == [S EXCEPT !.connectionState = "connecting",
                           !.manualDisconnect = FALSE]
       IN IF createFails
          THEN [HandleReconnect([S1 EXCEPT !.connectionState = "disconnected"])
                  EXCEPT !.thrown = "connect"]
          ELSE [S1 EXCEPT !.sockets = Append(@, "CONNECTING"),
                          !.ws = Len(S1.sockets) + 1]

\* send(message); a message with ok = FALSE is one JSON.stringify rejects.
\* The timestamp send() stamps on the message is not part of its identity.
Send(S, m) ==
  IF S.ws # NULL /\ S.sockets[S.ws] = "OPEN"
  THEN IF m.ok
       THEN [S EXCEPT !.sent = Append(@, m.id)]
       ELSE [S EXCEPT !.thrown = "send"]
  ELSE [S EXCEPT !.messageQueue = Append(@, m)]

\* queue.forEach(message => this.send(message)): an exception ends the loop.
RECURSIVE SendEach(_, _)
SendEach(S, queue) ==
  IF queue = <<>>
  THEN S
  ELSE LET S1 == Send(S, Head(queue))
       IN IF S1.thrown # NoError THEN S1 ELSE SendEach(S1, Tail(queue))

\* flushMessageQueue()
FlushMessageQueue(S) ==
  IF Len(S.messageQueue) > 0
  THEN SendEach([S EXCEPT !.messageQueue = <<>>], S.messageQueue)
  ELSE S

\* One registered onOpen handler, inside the try/catch of the forEach.
RunOpenHandler(S, kind) ==
  IF kind = "sends"
  THEN [Send([S EXCEPT !.msgSeq = @ + 1], [id |-> S.msgSeq + 1, ok |-> TRUE])
          EXCEPT !.thrown = NoError]
  ELSE S

\* this.onOpenHandlers.forEach(...)
RECURSIVE RunOpenHandlers(_, _)
RunOpenHandlers(S, handlers) ==
  IF handlers = <<>>
  THEN S
  ELSE RunOpenHandlers(RunOpenHandler(S, Head(handlers)), Tail(handlers))

\* ws.onopen
OnOpenEvent(S) ==
  LET S1 == [S EXCEPT !.connectionState = "connected", !.reconnectAttempts = 0]
  IN FlushMessageQueue(RunOpenHandlers(S1, S1.onOpenHandlers))

\* ws.onclose; the onClose handlers touch no field of the client.
OnCloseEvent(S) ==
  LET wasConnected == S.connectionState = "connected"
      isUnexpected == ~S.manualDisconnect /\ wasConnected
      S1 == [S EXCEPT !.connectionState = "disconnected"]
  IN IF isUnexpected /\ S1.shouldReconnect THEN HandleReconnect(S1) ELSE S1

\* ws.onerror: runs the onError handlers, which touch no field of the client.
OnErrorEvent(S) == S

\* WebSocket.close(): a socket that is connecting or open starts closing.
CloseSocket(S) ==
  IF S.sockets[S.ws] \in {"CONNECTING", "OPEN"}
  THEN [S EXCEPT !.sockets[S.ws] = "CLOSING"]
  ELSE S

\* disconnect() forgetting the timer without clearing it.
Disconnect_KeepsTimer(S) ==
  LET S1 == [S EXCEPT !.manualDisconnect = TRUE, !.shouldReconnect = FALSE,
                      !.reconnectTimer = NULL]
  IN IF S1.ws # NULL
     THEN CloseSocket([S1 EXCEPT !.connectionState = "disconnecting"])
     ELSE S1

\* disconnect()
Disconnect(S) ==
  LET S1 == [S EXCEPT !.manualDisconnect = TRUE, !.shouldReconnect = FALSE]
      S2 == IF S1.reconnectTimer # NULL
            THEN [S1 EXCEPT !.timers = ClearTimeout(S1), !.reconnectTimer = NULL]
            ELSE S1
  IN IF S2.ws # NULL
     THEN CloseSocket([S2 EXCEPT !.connectionState = "disconnecting"])
     ELSE S2

\* destroy()
Destroy(S) ==
  [Disconnect(S) EXCEPT !.messageHandlers = NoHandlers,
                        !.onOpenHandlers = <<>>, !.messageQueue = <<>>]

\* The callback handleReconnect passes to window.setTimeout.
ReconnectCallback(S, createFails) ==
  Connect([S EXCEPT !.reconnectTimer = NULL], createFails)

\* ------------------------------------------------------------ actions

TransportInit ==
  /\ ws = NULL
  /\ connectionState = "disconnected"
  /\ messageQueue = <<>>
  /\ onOpenHandlers = <<>>
  /\ shouldReconnect = TRUE
  /\ reconnectAttempts = 0
  /\ reconnectTimer = NULL
  /\ manualDisconnect = FALSE
  /\ sockets = <<>>
  /\ timers = {}
  /\ timerSeq = 0
  /\ sent = <<>>
  /\ msgSeq = 0
  /\ thrown = NoError
  /\ unexpectedClosures = 0
  /\ userDisabled = FALSE

\* A caller calls connect().
DoConnect ==
  \E createFails \in BOOLEAN :
    /\ Becomes(Connect(Client, createFails))
    /\ UNCHANGED <<unexpectedClosures, userDisabled>>

\* A caller calls send() with a new message.
DoSend ==
  \E ok \in BOOLEAN :
    /\ Becomes(Send([Client EXCEPT !.msgSeq = @ + 1], [id |-> msgSeq + 1, ok |-> ok]))
    /\ UNCHANGED <<unexpectedClosures, userDisabled>>

\* A caller calls onOpen(handler).
DoOnOpen ==
  \E kind \in OpenHandlerKinds :
    /\ Len(onOpenHandlers) < MaxOpenHandlers
    /\ Becomes([Client EXCEPT !.onOpenHandlers = Append(@, kind)])
    /\ UNCHANGED <<unexpectedClosures, userDisabled>>

\* A caller calls disconnect().
DoDisconnect ==
  /\ Becomes(Disconnect(Client))
  /\ unexpectedClosures' = 0
  /\ UNCHANGED userDisabled

\* A caller calls destroy().
DoDestroy ==
  /\ Becomes(Destroy(Client))
  /\ unexpectedClosures' = 0
  /\ UNCHANGED userDisabled

\* A caller calls enableReconnect().
DoEnableReconnect ==
  /\ Becomes([Client EXCEPT !.shouldReconnect = TRUE])
  /\ userDisabled' = FALSE
  /\ UNCHANGED unexpectedClosures

\* A caller calls disableReconnect().
DoDisableReconnect ==
  /\ Becomes([Client EXCEPT !.shouldReconnect = FALSE])
  /\ userDisabled' = TRUE
  /\ unexpectedClosures' = 0

\* The open event of socket s: the handler installed on it runs, on the client.
SocketOpen ==
  \E s \in 1..Len(sockets) :
    /\ sockets[s] = "CONNECTING"
    /\ Becomes(OnOpenEvent([Client EXCEPT !.sockets[s] = "OPEN"]))
    /\ unexpectedClosures' = 0
    /\ UNCHANGED userDisabled

\* The close event of socket s, after an error event when the connection failed.
\* unexpectedClosures counts the closures of the current connection that no
\* disconnect() caused, with reconnection enabled: the first closes an
\* established connection, the following ones close the connection of a
\* reconnect attempt (the reconnect timer has fired) that never opened.
SocketClose ==
  \E s \in 1..Len(sockets), failed \in BOOLEAN :
    /\ sockets[s] # "CLOSED"
    /\ LET S0 == [Client EXCEPT !.sockets[s] = "CLOSED"]
           S1 == IF failed THEN OnErrorEvent(S0) ELSE S0
       IN Becomes(OnCloseEvent(S1))
    /\ unexpectedClosures' =
         IF /\ s = ws
            /\ ~manualDisconnect
            /\ shouldReconnect
            /\ (connectionState = "connected"
                  \/ (unexpectedClosures > 0 /\ timers = {}))
         THEN unexpectedClosures + 1
         ELSE unexpectedClosures
    /\ UNCHANGED userDisabled

\* A pending timer fires.
TimerFires ==
  \E t \in timers, createFails \in BOOLEAN :
    /\ Becomes(ReconnectCallback([Client EXCEPT !.timers = @ \ {t}], createFails))
    /\ UNCHANGED <<unexpectedClosures, userDisabled>>

TransportNext ==
  \/ DoConnect
  \/ DoSend
  \/ DoOnOpen
  \/ DoDisconnect
  \/ DoDestroy
  \/ DoEnableReconnect
  \/ DoDisableReconnect
  \/ SocketOpen
  \/ SocketClose
  \/ TimerFires

(***************************************************************************)
(* Part 2: inbound dispatch of the client.  messageHandlers maps a message *)
(* type to the handlers registered for it with onMessage(), in             *)
(* registration order.  A handler is known by the order number of its      *)
(* registration and by whether it throws when it is called; what it does   *)
(* otherwise is outside the client.                                        *)
(***************************************************************************)

\* onMessage(type, handler): the list of the type is created when absent and
\* the handler is pushed onto it.
OnMessage(S, type, h) == [S EXCEPT !.messageHandlers[type] = Append(@, h)]

\* handlers.forEach with the try/catch around each call: every handler is
\* called, whether or not an earlier one threw.  The result is the calls made.
RECURSIVE CallEach(_)
CallEach(handlers) ==
  IF handlers = <<>>
  THEN <<>>
  ELSE <<Head(handlers).id>> \o CallEach(Tail(handlers))

\* Variant: no try/catch inside the loop, the first exception ends forEach.
RECURSIVE CallEach_UntilThrow(_)
CallEach_UntilThrow(handlers) ==
  IF handlers = <<>>
  THEN <<>>
  ELSE IF Head(handlers).throws
       THEN <<Head(handlers).id>>
       ELSE <<Head(handlers).id>> \o CallEach_UntilThrow(Tail(handlers))

HandleIncomingMessage_UntilThrow(S, type) ==
  LET handlers == S.messageHandlers[type]
  IN IF Len(handlers) > 0 THEN CallEach_UntilThrow(handlers) ELSE <<>>

\* handleIncomingMessage(message): the calls it makes.
HandleIncomingMessage(S, type) ==
  LET handlers == S.messageHandlers[type]
  IN IF Len(handlers) > 0 THEN CallEach(handlers) ELSE <<>>

\* ws.onmessage: JSON.parse in a try block; a payload that does not parse is
\* logged and dropped.
OnMessageEvent(S, parses, type) ==
  IF parses THEN HandleIncomingMessage(S, type) ELSE <<>>

DispatchInit ==
  /\ messageHandlers = NoHandlers
  /\ handlerSeq = 0
  /\ invoked = <<>>

\* A caller registers a handler for a type.
DoOnMessage ==
  \E type \in MessageTypes, throws \in BOOLEAN :
    /\ handlerSeq < MaxHandlers
    /\ handlerSeq' = handlerSeq + 1
    /\ messageHandlers' =
         OnMessage(Client, type, [id |-> handlerSeq + 1, throws |-> throws]).messageHandlers
    /\ UNCHANGED <<invoked, vars, vadVars, pipelineVars, playbackVars, inboundVars, signalVars>>

\* Socket s delivers the message event of a frame of the given type.
MessageArrives(s, parses, type) ==
  /\ sockets[s] \in {"OPEN", "CLOSING"}
  /\ invoked' = OnMessageEvent(Client, parses, type)
  /\ UNCHANGED <<messageHandlers, handlerSeq, vars, vadVars, pipelineVars, playbackVars, inboundVars, signalVars>>

SocketMessage ==
  \E s \in 1..Len(sockets), parses \in BOOLEAN, type \in MessageTypes :
    MessageArrives(s, parses, type)

DispatchNext ==
  \/ DoOnMessage
  \/ SocketMessage
  \/ DoDestroy
  \/ DoConnect
  \/ SocketOpen
  \/ SocketClose

(***************************************************************************)
(* Part 3: the voice activity detector, class VoiceActivityDetector        *)
(* (audio/vad).  Time is counted in analysis periods: TimePasses lets one  *)
(* updateInterval go by and makes the callback of every live analysis      *)
(* timer due; the callbacks run before the next period starts.  Whether a  *)
(* tick flags speech (voiceDetected) is an input of the tick.              *)
(***************************************************************************)

VADStates == {"idle", "calibrating", "detecting", "stopped"}

\* The value of a timestamp field that holds no timestamp (0 in the detector).
NoTime == -1
\* Date.now(), as the time elapsed since it: none.
Now == 0
\* now - t
Elapsed(t) == t

\* The timestamp t, dt later.  horizon is the longest duration t is compared
\* with: an older timestamp compares like one of exactly that age.
Aged(t, dt, horizon) == IF t = NoTime THEN NoTime ELSE Min(t + dt, horizon)

\* the bins of the analyser, and a spectrum with nothing in any bin
Bins == 1..frequencyBinCount
NoSound == [b \in Bins |-> 0]

\* The detector as one record, the argument of its methods; events collects
\* the callbacks a call fires.
Detector ==
  [state |-> vadState, isSpeaking |-> isSpeaking,
   speechStartTime |-> speechStartTime, speechEndTime |-> speechEndTime,
   updateIntervalId |-> updateIntervalId, analyserNode |-> analyserNode,
   calibrationSamples |-> calibrationSamples, rmsThreshold |-> rmsThreshold,
   noiseFloorRMS |-> noiseFloorRMS, noiseFloorFrequency |-> noiseFloorFrequency,
   intervals |-> intervals, due |-> due,
   rms |-> 0, frequencyData |-> NoSound,
   events |-> <<>>, errors |-> 0, threw |-> FALSE]

\* The step ends with the detector in state V.
DetectorBecomes(V) ==
  /\ Cardinality(V.intervals) <= MaxIntervals
  /\ V.noiseFloorRMS <= MaxNoiseSum
  /\ vadState' = V.state
  /\ isSpeaking' = V.isSpeaking
  /\ speechStartTime' = V.speechStartTime
  /\ speechEndTime' = V.speechEndTime
  /\ updateIntervalId' = V.updateIntervalId
  /\ analyserNode' = V.analyserNode
  /\ calibrationSamples' = V.calibrationSamples
  /\ rmsThreshold' = V.rmsThreshold
  /\ noiseFloorRMS' = V.noiseFloorRMS
  /\ noiseFloorFrequency' = V.noiseFloorFrequency
  /\ intervals' = V.intervals
  /\ due' = V.due
  /\ vadEvents' = V.events
  /\ vadErrors' = V.errors
  /\ vadThrew' = V.threw

\* what no method of the detector writes
outsideDetector == <<vars, dispatchVars, pipelineVars, playbackVars, inboundVars, signalVars>>

\* the history variables of the detector, which only a tick writes
tickHistory == <<flaggedSince, quietSince, unmatchedStart>>

\* The handle window.setInterval returns: one that no live timer has.
NewInterval(V) == CHOOSE h \in 1..(MaxIntervals + 1) : h \notin V.intervals

\* handleError(error)
HandleError(V) == [V EXCEPT !.errors = @ + 1]

\* startDetection() were its catch block to rethrow without reporting
StartAnalysis_Unreported(V, fails) ==
  IF fails
  THEN [V EXCEPT !.threw = TRUE]
  ELSE LET h == NewInterval(V)
       IN [V EXCEPT !.analyserNode = TRUE,
                    !.noiseFloorFrequency = NoSound,
                    !.state = "calibrating",
                    !.calibrationSamples = 0,
                    !.updateIntervalId = h,
                    !.intervals = @ \cup {h}]

\* startDetection() from the creation of the AudioContext on (lines 138-172),
\* and its catch block when a step of it throws, getUserMedia included.
StartAnalysis(V, fails) ==
  IF fails
  THEN [HandleError(V) EXCEPT !.threw = TRUE]
  ELSE LET h == NewInterval(V)
       IN [V EXCEPT !.analyserNode = TRUE,
                    !.noiseFloorFrequency = NoSound,
                    !.state = "calibrating",
                    !.calibrationSamples = 0,
                    !.updateIntervalId = h,
                    !.intervals = @ \cup {h}]

\* stopDetection()
StopDetection(V) ==
  LET V1 == IF V.updateIntervalId # NULL
            THEN [V EXCEPT !.intervals = @ \ {V.updateIntervalId},
                           !.due = @ \ {V.updateIntervalId},
                           !.updateIntervalId = NULL]
            ELSE V
  IN [V1 EXCEPT !.analyserNode = FALSE, !.state = "stopped", !.isSpeaking = FALSE]

\* recalibrate()
Recalibrate(V) ==
  IF V.state = "detecting"
  THEN [V EXCEPT !.state = "calibrating", !.calibrationSamples = 0]
  ELSE V

\* updateConfig(config), for the RMS threshold
UpdateConfig(V, threshold) == [V EXCEPT !.rmsThreshold = threshold]

\* The dynamic threshold of updateCalibration() (lines 443-449); the
\* product with 1.8 is rounded down to the unit of the levels.
DynamicThreshold(static, noiseFloor) ==
  Min(maxThreshold, Max(Max(static, minThreshold), (noiseFloor * 18) \div 10))

\* updateCalibration(rms, frequencyData); the averages are rounded down to
\* the unit of the levels.
UpdateCalibration(V) ==
  LET V1 == [V EXCEPT !.noiseFloorRMS = @ + V.rms,
                      !.noiseFloorFrequency =
                         [b \in Bins |-> @[b] + V.frequencyData[b]],
                      !.calibrationSamples = @ + 1]
  IN IF V1.calibrationSamples >= calibrationTarget
     THEN LET average == V1.noiseFloorRMS \div V1.calibrationSamples
          IN [V1 EXCEPT !.noiseFloorRMS = average,
                        !.noiseFloorFrequency =
                           [b \in Bins |-> @[b] \div V1.calibrationSamples],
                        !.rmsThreshold = DynamicThreshold(V.rmsThreshold, average),
                        !.state = "detecting"]
     ELSE V1

\* Variant of the debounce: the first non-flagged tick fires speech-end.
Debounce_NoHangover(V, voiceDetected) ==
  IF voiceDetected
  THEN IF ~V.isSpeaking
       THEN IF V.speechStartTime = NoTime
            THEN [V EXCEPT !.speechStartTime = Now]
            ELSE IF Elapsed(V.speechStartTime) >= minimumSpeechDuration
                 THEN [V EXCEPT !.isSpeaking = TRUE, !.speechEndTime = NoTime,
                                !.events = Append(@, "start")]
                 ELSE V
       ELSE [V EXCEPT !.speechEndTime = NoTime]
  ELSE IF V.isSpeaking
       THEN [V EXCEPT !.isSpeaking = FALSE, !.speechStartTime = NoTime,
                      !.events = Append(@, "end")]
       ELSE [V EXCEPT !.speechStartTime = NoTime]

\* The state machine with debouncing of analyzeAudio() (lines 334-369).
Debounce(V, voiceDetected) ==
  IF voiceDetected
  THEN IF ~V.isSpeaking
       THEN IF V.speechStartTime = NoTime
            THEN [V EXCEPT !.speechStartTime = Now]
            ELSE IF Elapsed(V.speechStartTime) >= minimumSpeechDuration
                 THEN [V EXCEPT !.isSpeaking = TRUE, !.speechEndTime = NoTime,
                                !.events = Append(@, "start")]
                 ELSE V
       ELSE [V EXCEPT !.speechEndTime = NoTime]
  ELSE IF V.isSpeaking
       THEN IF V.speechEndTime = NoTime
            THEN [V EXCEPT !.speechEndTime = Now]
            ELSE IF Elapsed(V.speechEndTime) >= hangoverTime
                 THEN [V EXCEPT !.isSpeaking = FALSE, !.speechStartTime = NoTime,
                                !.events = Append(@, "end")]
                 ELSE V
       ELSE [V EXCEPT !.speechStartTime = NoTime]

\* analyzeAudio()
AnalyzeAudio(V, voiceDetected) ==
  IF ~V.analyserNode
  THEN V
  ELSE IF V.state = "calibrating"
       THEN UpdateCalibration(V)
       ELSE Debounce(V, voiceDetected)

(***************************************************************************)
(* Part 4: the outbound coordinator, class AudioPipeline, with the         *)
(* MicrophoneCapture it starts and stops (audio/audioPipeline,             *)
(* audio/micCapture) and the session signal of TherapyStateController.     *)
(* The coordinator's calls of websocketClient.send and of                  *)
(* stopAudioPlayback are recorded as calls; what the client does with a    *)
(* message is part 1.  A promise chain that is resumed by microtasks only  *)
(* runs within one step; a call is suspended where it waits for the        *)
(* device: in getUserMedia and in AudioContext.close.                      *)
(***************************************************************************)

TherapyStates == {"idle", "active_therapy", "paused"}

\* The coordinator with its collaborators as one record; vad is the detector.
Audio ==
  [therapyState |-> therapyState, isRunning |-> isRunning,
   isSpeechActive |-> isSpeechActive, commitDebounceTimer |-> commitDebounceTimer,
   commitTimers |-> commitTimers, callbacks |-> callbacks,
   isCapturing |-> isCapturing, micStream |-> micStream, micContext |-> micContext,
   workletNode |-> workletNode, onAudioChunk |-> onAudioChunk,
   micClosing |-> micClosing, pendingCaptures |-> pendingCaptures,
   calls |-> <<>>, startRejected |-> FALSE, vad |-> Detector]

\* The step ends in state A, within the bounds of the model.
AudioBecomes(A) ==
  /\ A.callbacks <= MaxCallbacks
  /\ A.pendingCaptures <= MaxPendingCaptures
  /\ A.micClosing <= MaxClosing
  /\ therapyState' = A.therapyState
  /\ isRunning' = A.isRunning
  /\ isSpeechActive' = A.isSpeechActive
  /\ commitDebounceTimer' = A.commitDebounceTimer
  /\ commitTimers' = A.commitTimers
  /\ callbacks' = A.callbacks
  /\ isCapturing' = A.isCapturing
  /\ micStream' = A.micStream
  /\ micContext' = A.micContext
  /\ workletNode' = A.workletNode
  /\ onAudioChunk' = A.onAudioChunk
  /\ micClosing' = A.micClosing
  /\ pendingCaptures' = A.pendingCaptures
  /\ calls' = A.calls
  /\ startRejected' = A.startRejected
  /\ DetectorBecomes(A.vad)

\* clearTimeout(this.commitDebounceTimer)
ClearCommitTimeout(A) == {t \in A.commitTimers : t.id # A.commitDebounceTimer}

\* The handle window.setTimeout returns: one that no pending timer has.
NewCommitHandle(A) ==
  CHOOSE h \in 1..(Cardinality(A.commitTimers) + 1) :
    \A t \in A.commitTimers : t.id # h

\* Variant: the previous timer is left pending when a new one is armed.
ScheduleBufferCommit_Stacks(A) ==
  LET h == NewCommitHandle(A)
  IN [A EXCEPT !.commitTimers = @ \cup {[id |-> h, remaining |-> COMMIT_DEBOUNCE_MS]},
               !.commitDebounceTimer = h]

\* scheduleBufferCommit()
ScheduleBufferCommit(A) ==
  LET A1 == IF A.commitDebounceTimer # NULL
            THEN [A EXCEPT !.commitTimers = ClearCommitTimeout(A)]
            ELSE A
      h == NewCommitHandle(A1)
  IN [A1 EXCEPT !.commitTimers = @ \cup {[id |-> h, remaining |-> COMMIT_DEBOUNCE_MS]},
                !.commitDebounceTimer = h]

\* The callback scheduleBufferCommit passes to window.setTimeout.
CommitCallback(A) ==
  [A EXCEPT !.calls = Append(@, "input_audio_buffer.commit"),
            !.commitDebounceTimer = NULL]

\* handleSpeechDetection(isSpeaking)
HandleSpeechDetection(A, speaking) ==
  IF speaking
  THEN LET A1 == [A EXCEPT !.calls = @ \o <<"stopAudioPlayback", "response.cancel">>]
           A2 == IF A1.commitDebounceTimer # NULL
                 THEN [A1 EXCEPT !.commitTimers = ClearCommitTimeout(A1),
                                 !.commitDebounceTimer = NULL]
                 ELSE A1
       IN [A2 EXCEPT !.isSpeechActive = TRUE]
  ELSE ScheduleBufferCommit([A EXCEPT !.isSpeechActive = FALSE])

\* Variant: frames are forwarded whether or not speech is active.
HandleAudioChunk_Ungated(A) ==
  [A EXCEPT !.calls = Append(@, "input_audio_buffer.append")]

\* handleAudioChunk(chunk)
HandleAudioChunk(A) ==
  IF ~A.isSpeechActive
  THEN A
  ELSE [A EXCEPT !.calls = Append(@, "input_audio_buffer.append")]

\* scriptNode.onaudioprocess
OnAudioProcess(A) ==
  IF ~A.isCapturing \/ ~A.onAudioChunk THEN A ELSE HandleAudioChunk(A)

\* The detector's onSpeechStart / onSpeechEnd as onSpeechDetected() builds
\* them: every registration wraps the callbacks before it, so the handler
\* runs once for each registration.
RECURSIVE CallWrapped(_, _, _)
CallWrapped(A, n, speaking) ==
  IF n = 0 THEN A ELSE HandleSpeechDetection(CallWrapped(A, n - 1, speaking), speaking)

\* The detector's callbacks for the events of one tick.
RECURSIVE Deliver(_, _)
Deliver(A, events) ==
  IF events = <<>>
  THEN A
  ELSE Deliver(CallWrapped(A, A.callbacks, Head(events) = "start"), Tail(events))

\* vad.onSpeechDetected(callback)
OnSpeechDetected(A) == [A EXCEPT !.callbacks = @ + 1]

\* vad.offSpeechDetected(callback)
OffSpeechDetected(A) == [A EXCEPT !.callbacks = 0]

\* MicrophoneCapture.stop(), up to the await of audioContext.close(); without
\* an audio context it completes at once.
MicStop(A) ==
  LET A1 == [A EXCEPT !.micStream = FALSE, !.workletNode = FALSE]
  IN IF A1.micContext
     THEN [A1 EXCEPT !.micClosing = @ + 1]
     ELSE [A1 EXCEPT !.isCapturing = FALSE]

\* MicrophoneCapture.stop() after the await of audioContext.close().
MicStopResumes(A) ==
  [A EXCEPT !.micClosing = @ - 1, !.micContext = FALSE, !.isCapturing = FALSE]

\* Variant: stopAudioPipeline() without the test of isRunning.
StopAudioPipeline_Unguarded(A) ==
  LET A1 == IF A.commitDebounceTimer # NULL
            THEN [A EXCEPT !.commitTimers = ClearCommitTimeout(A),
                           !.commitDebounceTimer = NULL]
            ELSE A
      A2 == [OffSpeechDetected(A1) EXCEPT !.onAudioChunk = FALSE]
      A3 == [A2 EXCEPT !.vad = StopDetection(@)]
      A4 == MicStop(A3)
  IN [A4 EXCEPT !.isRunning = FALSE, !.isSpeechActive = FALSE]

\* stopAudioPipeline()
StopAudioPipeline(A) ==
  IF ~A.isRunning
  THEN A
  ELSE LET A1 == IF A.commitDebounceTimer # NULL
                 THEN [A EXCEPT !.commitTimers = ClearCommitTimeout(A),
                                !.commitDebounceTimer = NULL]
                 ELSE A
           A2 == [OffSpeechDetected(A1) EXCEPT !.onAudioChunk = FALSE]
           A3 == [A2 EXCEPT !.vad = StopDetection(@)]
           A4 == MicStop(A3)
       IN [A4 EXCEPT !.isRunning = FALSE, !.isSpeechActive = FALSE]

\* The catch block of startAudioPipeline().
StartFails(A) == [StopAudioPipeline(A) EXCEPT !.startRejected = TRUE]

\* startAudioPipeline() from vad.startDetection(stream) on (lines 307-317).
StartDetectorAndWire(A, vadFails) ==
  IF A.vad.state # "detecting" /\ vadFails
  THEN StartFails([A EXCEPT !.vad = StartAnalysis(@, TRUE)])
  ELSE LET A1 == IF A.vad.state = "detecting"
                 THEN A
                 ELSE [A EXCEPT !.vad = StartAnalysis(@, FALSE)]
       IN [OnSpeechDetected(A1) EXCEPT !.onAudioChunk = TRUE, !.isRunning = TRUE]

\* startAudioPipeline() up to the point where the capture waits for
\* getUserMedia; when the capture says it is capturing already, start()
\* returns at once and the call goes on without waiting.
StartAudioPipeline(A, connectFails, vadFails) ==
  IF A.isRunning \/ A.therapyState # "active_therapy"
  THEN A
  ELSE IF connectFails
       THEN StartFails(A)
       ELSE IF A.isCapturing
            THEN IF ~A.micStream
                 THEN StartFails(A)
                 ELSE StartDetectorAndWire(A, vadFails)
            ELSE [A EXCEPT !.pendingCaptures = @ + 1]

\* MicrophoneCapture.start() after getUserMedia settled, and then the rest
\* of the startAudioPipeline() that was waiting for it.
CaptureResumes(A, granted, contextFails, vadFails) ==
  LET A0 == [A EXCEPT !.pendingCaptures = @ - 1]
  IN IF ~granted
     THEN StartFails([A0 EXCEPT !.isCapturing = FALSE])
     ELSE IF contextFails
          THEN StartFails([A0 EXCEPT !.micStream = TRUE, !.isCapturing = FALSE])
          ELSE StartDetectorAndWire(
                 [A0 EXCEPT !.micStream = TRUE, !.isCapturing = TRUE,
                            !.micContext = TRUE, !.workletNode = TRUE],
                 vadFails)

\* The listener the coordinator registers on TherapyStateController, as
\* setState() calls it.
SetState(A, newState, connectFails, vadFails) ==
  IF A.therapyState = newState
  THEN A
  ELSE LET A1 == [A EXCEPT !.therapyState = newState]
       IN IF newState = "active_therapy" /\ ~A1.isRunning
          THEN StartAudioPipeline(A1, connectFails, vadFails)
          ELSE IF newState \in {"idle", "paused"} /\ A1.isRunning
               THEN StopAudioPipeline(A1)
               ELSE A1

VADInit ==
  /\ vadState = "idle"
  /\ isSpeaking = FALSE
  /\ speechStartTime = NoTime
  /\ speechEndTime = NoTime
  /\ updateIntervalId = NULL
  /\ analyserNode = FALSE
  /\ calibrationSamples = 0
  /\ rmsThreshold = rmsThresholdDefault
  /\ noiseFloorRMS = 0
  /\ noiseFloorFrequency = NoSound
  /\ intervals = {}
  /\ due = {}
  /\ pendingStarts = 0
  /\ vadEvents = <<>>
  /\ vadErrors = 0
  /\ vadThrew = FALSE
  /\ flaggedSince = NoTime
  /\ quietSince = NoTime
  /\ unmatchedStart = FALSE

\* A caller calls startDetection(), with a stream or without.  Without one
\* the call is suspended in getUserMedia once it is past the state check.
DoStartDetection ==
  \E stream \in BOOLEAN, fails \in BOOLEAN :
    /\ IF vadState = "detecting"
       THEN DetectorBecomes(Detector) /\ UNCHANGED pendingStarts
       ELSE IF stream
            THEN DetectorBecomes(StartAnalysis(Detector, fails)) /\ UNCHANGED pendingStarts
            ELSE /\ pendingStarts < MaxPendingStarts
                 /\ pendingStarts' = pendingStarts + 1
                 /\ DetectorBecomes(Detector)
    /\ UNCHANGED <<tickHistory, outsideDetector>>

\* getUserMedia settles and the suspended startDetection() goes on.
GetUserMediaSettles ==
  \E granted \in BOOLEAN, fails \in BOOLEAN :
    /\ pendingStarts > 0
    /\ pendingStarts' = pendingStarts - 1
    /\ DetectorBecomes(StartAnalysis(Detector, ~granted \/ fails))
    /\ UNCHANGED <<tickHistory, outsideDetector>>

DoStopDetection ==
  /\ DetectorBecomes(StopDetection(Detector))
  /\ UNCHANGED <<pendingStarts, tickHistory, outsideDetector>>

DoRecalibrate ==
  /\ DetectorBecomes(Recalibrate(Detector))
  /\ UNCHANGED <<pendingStarts, tickHistory, outsideDetector>>

\* What a step that ends with the coordinator in state A adds to its
\* history, events being the speech events the detector fired in the step:
\* a speech-end of the running pipeline is settling until a speech-start or
\* a stop of the pipeline follows it; a speech-start is open until a
\* speech-end or a stop follows it.
PipelineHistory(A, events) ==
  LET stopped == isRunning /\ ~A.isRunning
  IN /\ settling' = IF stopped \/ events = <<"start">> THEN NoTime
                     ELSE IF events = <<"end">> /\ isRunning THEN Now
                     ELSE settling
     /\ speechOpen' = IF stopped \/ events = <<"end">> THEN FALSE
                       ELSE IF events = <<"start">> /\ isRunning THEN TRUE
                       ELSE speechOpen

\* An utterance as the coordinator's history sees it.  It begins (phase
\* "speech") with a flagged tick of the detector in Detecting while the
\* pipeline runs and no speech-start is open, goes on while every tick is
\* flagged, turns to "silence" with the first non-flagged tick and goes on
\* while every tick is non-flagged.  t is the time since the first tick of
\* the phase, tEnd the time since the speech-end; starts, ends and commits
\* count the speech-starts, the speech-ends and, in the silence, the
\* buffer-commits.  Any other call of the coordinator ends the utterance.
NoScene ==
  [phase |-> "off", t |-> 0, tEnd |-> NoTime, starts |-> 0, ends |-> 0, commits |-> 0]

\* The tick of detector V that fired events, with voiceDetected.
SceneTick(V, events, voiceDetected) ==
  LET debounced == V.analyserNode /\ V.state = "detecting"
      fired(e) == IF events = <<e>> THEN 1 ELSE 0
  IN IF ~debounced
     THEN scene
     ELSE IF scene.phase = "off"
          THEN IF voiceDetected /\ isRunning /\ ~speechOpen
               THEN [NoScene EXCEPT !.phase = "speech", !.starts = fired("start")]
               ELSE scene
          ELSE IF scene.phase = "speech"
               THEN IF voiceDetected
                    THEN [scene EXCEPT !.starts = @ + fired("start")]
                    ELSE IF scene.t >= 150
                         THEN [scene EXCEPT !.phase = "silence", !.t = 0,
                                            !.ends = fired("end"),
                                            !.tEnd = IF fired("end") = 1 THEN Now ELSE NoTime]
                         ELSE NoScene
               ELSE IF voiceDetected
                    THEN NoScene
                    ELSE [scene EXCEPT !.ends = @ + fired("end"),
                                       !.tEnd = IF fired("end") = 1 THEN Now ELSE @]

\* One analysis period later.
SceneAged ==
  IF scene.phase = "off"
  THEN scene
  ELSE [scene EXCEPT !.t = Min(@ + updateInterval, 360),
                     !.tEnd = Aged(@, updateInterval, 330)]

\* A buffer-commit is sent.
SceneCommit ==
  IF scene.phase = "silence" THEN [scene EXCEPT !.commits = @ + 1] ELSE scene

\* the history variables of the coordinator
pipelineHistory == <<settling, speechOpen, scene>>

\* One analysis period goes by.  The callbacks that were due have run.
Period ==
  /\ due = {}
  /\ \A t \in commitTimers : t.remaining > 0
  /\ AudioBecomes([Audio EXCEPT
       !.vad.speechStartTime = Aged(@, updateInterval, minimumSpeechDuration),
       !.vad.speechEndTime = Aged(@, updateInterval, hangoverTime),
       !.vad.due = intervals,
       !.commitTimers = {[t EXCEPT !.remaining = IF @ > updateInterval
                                                  THEN @ - updateInterval ELSE 0] :
                           t \in @}])
  /\ UNCHANGED <<pendingStarts, vars, dispatchVars, playbackVars, inboundVars, signalVars>>

\* A period goes by, with the history of the detector.
TimePasses ==
  /\ Period
  /\ flaggedSince' = Aged(flaggedSince, updateInterval, minimumSpeechDuration)
  /\ quietSince' = Aged(quietSince, updateInterval, hangoverTime)
  /\ UNCHANGED <<unmatchedStart, pipelineHistory>>

\* A period goes by, with the history of the coordinator.
PipelineTimePasses ==
  /\ Period
  /\ settling' = Aged(settling, updateInterval, COMMIT_DEBOUNCE_MS)
  /\ UNCHANGED <<speechOpen, scene, tickHistory>>

\* A period goes by, with the history of the coordinator and the utterance.
UtteranceTimePasses ==
  /\ Period
  /\ settling' = Aged(settling, updateInterval, COMMIT_DEBOUNCE_MS)
  /\ scene' = SceneAged
  /\ UNCHANGED <<speechOpen, tickHistory>>

\* What a tick adds to the history: the runs of flagged and of non-flagged
\* ticks, and whether a speech-start is unmatched.
TickHistory(V, V2, voiceDetected) ==
  LET analysed == V.analyserNode
      flagged == analysed /\ V.state # "calibrating" /\ voiceDetected
      quiet == analysed /\ V.state # "calibrating" /\ ~voiceDetected
  IN /\ flaggedSince' = IF ~analysed THEN flaggedSince
                        ELSE IF flagged
                             THEN (IF flaggedSince = NoTime THEN Now ELSE flaggedSince)
                             ELSE NoTime
     /\ quietSince' = IF ~analysed THEN quietSince
                      ELSE IF quiet
                           THEN (IF quietSince = NoTime THEN Now ELSE quietSince)
                           ELSE NoTime
     /\ unmatchedStart' = IF V2.events = <<"start">> THEN TRUE
                          ELSE IF V2.events = <<"end">> THEN FALSE
                          ELSE unmatchedStart

\* The detector when the callback of analysis timer i starts.
Ticking(i) == [Detector EXCEPT !.due = @ \ {i}]

\* The callback of analysis timer i runs, and with it the speech callbacks
\* registered on the detector.
Tick(i, voiceDetected) ==
  LET V2 == AnalyzeAudio(Ticking(i), voiceDetected)
  IN Deliver([Audio EXCEPT !.vad = V2], V2.events)

\* What a tick can take the frame for: voice or not where analyzeAudio()
\* gets as far as the detection (lines 313-321), and nothing to choose where
\* it returns before it.
Heard == IF analyserNode /\ vadState # "calibrating" THEN BOOLEAN ELSE {FALSE}

\* A tick, with the history of the detector.
AnalysisTick ==
  \E i \in due, voiceDetected \in Heard :
    LET A2 == Tick(i, voiceDetected)
    IN /\ AudioBecomes(A2)
       /\ TickHistory(Ticking(i), A2.vad, voiceDetected)
       /\ UNCHANGED <<pipelineHistory, pendingStarts, vars, dispatchVars, playbackVars, inboundVars, signalVars>>

\* A tick, with the history of the coordinator.
PipelineTick ==
  \E i \in due, voiceDetected \in Heard :
    LET A2 == Tick(i, voiceDetected)
    IN /\ AudioBecomes(A2)
       /\ PipelineHistory(A2, A2.vad.events)
       /\ UNCHANGED <<scene, tickHistory, pendingStarts, vars, dispatchVars, playbackVars,
                      inboundVars, signalVars>>

\* A tick, with the history of the coordinator and the utterance.
UtteranceTick ==
  \E i \in due, voiceDetected \in Heard :
    LET A2 == Tick(i, voiceDetected)
    IN /\ AudioBecomes(A2)
       /\ PipelineHistory(A2, A2.vad.events)
       /\ scene' = SceneTick(Ticking(i), A2.vad.events, voiceDetected)
       /\ UNCHANGED <<tickHistory, pendingStarts, vars, dispatchVars, playbackVars,
                      inboundVars, signalVars>>

\* RMS thresholds a caller configures, and the levels the analyser reads in
\* a tick: the RMS of the frame and, the spectrum being flat, of each bin.
ConfigThresholds == {1, rmsThresholdDefault, 20}
Levels == {0, 6}

DoUpdateConfig ==
  \E threshold \in ConfigThresholds :
    /\ threshold # rmsThreshold
    /\ DetectorBecomes(UpdateConfig(Detector, threshold))
    /\ UNCHANGED <<pendingStarts, tickHistory, outsideDetector>>

\* The detector when the callback of analysis timer i has read the levels.
Measuring(i, level) ==
  [Ticking(i) EXCEPT !.rms = level, !.frequencyData = [b \in Bins |-> level]]

\* A tick, with the levels it reads, none of them taken for a voice.
CalibrationTick ==
  \E i \in due, level \in Levels :
    LET V2 == AnalyzeAudio(Measuring(i, level), FALSE)
        A2 == Deliver([Audio EXCEPT !.vad = V2], V2.events)
    IN /\ AudioBecomes(A2)
       /\ UNCHANGED <<tickHistory, pipelineHistory, pendingStarts, vars,
                      dispatchVars, playbackVars, inboundVars, signalVars>>

CalibrationNext ==
  \/ DoStartDetection
  \/ GetUserMediaSettles
  \/ DoStopDetection
  \/ DoRecalibrate
  \/ DoUpdateConfig
  \/ TimePasses
  \/ CalibrationTick

VADNext ==
  \/ DoStartDetection
  \/ GetUserMediaSettles
  \/ DoStopDetection
  \/ DoRecalibrate
  \/ TimePasses
  \/ AnalysisTick

PipelineInit ==
  /\ therapyState = "idle"
  /\ isRunning = FALSE
  /\ isSpeechActive = FALSE
  /\ commitDebounceTimer = NULL
  /\ commitTimers = {}
  /\ callbacks = 0
  /\ isCapturing = FALSE
  /\ micStream = FALSE
  /\ micContext = FALSE
  /\ workletNode = FALSE
  /\ onAudioChunk = FALSE
  /\ micClosing = 0
  /\ pendingCaptures = 0
  /\ calls = <<>>
  /\ startRejected = FALSE
  /\ settling = NoTime
  /\ speechOpen = FALSE
  /\ scene = NoScene

\* what no method of the coordinator writes
outsideAudio == <<pendingStarts, tickHistory, vars, dispatchVars, playbackVars, inboundVars, signalVars>>

\* What can go wrong in a start: nothing, websocketClient.connect() throws,
\* getUserMedia rejects, the capture's AudioContext cannot be built, or
\* vad.startDetection() throws.
StartOutcomes == {"ok", "connectFails", "denied", "contextFails", "vadFails"}

\* The outcomes a call of startAudioPipeline() can have before it waits for
\* getUserMedia: it gets as far as vad.startDetection() only when the
\* capture is capturing already, and the detector can throw only when it
\* is not Detecting.
OutcomesOfStart ==
  {"ok", "connectFails"} \cup
    (IF isCapturing /\ micStream /\ vadState # "detecting" THEN {"vadFails"} ELSE {})

\* The outcomes a start can have once getUserMedia has settled.
OutcomesOfCapture ==
  {"ok", "denied", "contextFails"} \cup
    (IF vadState # "detecting" THEN {"vadFails"} ELSE {})

\* The session signal changes: TherapyStateController.setState(newState).
DoSetState ==
  \E newState \in TherapyStates \ {therapyState} :
  \E outcome \in IF newState = "active_therapy" /\ ~isRunning
                  THEN OutcomesOfStart ELSE {"ok"} :
    LET A2 == SetState(Audio, newState, outcome = "connectFails", outcome = "vadFails")
    IN /\ AudioBecomes(A2)
       /\ PipelineHistory(A2, <<>>)
       /\ scene' = NoScene
       /\ UNCHANGED outsideAudio

\* A caller calls startAudioPipeline().
DoStartAudioPipeline ==
  \E outcome \in IF ~isRunning /\ therapyState = "active_therapy"
                  THEN OutcomesOfStart ELSE {"ok"} :
    LET A2 == StartAudioPipeline(Audio, outcome = "connectFails", outcome = "vadFails")
    IN /\ AudioBecomes(A2)
       /\ PipelineHistory(A2, <<>>)
       /\ scene' = NoScene
       /\ UNCHANGED outsideAudio

\* A caller calls stopAudioPipeline().
DoStopAudioPipeline ==
  LET A2 == StopAudioPipeline(Audio)
  IN /\ AudioBecomes(A2)
     /\ PipelineHistory(A2, <<>>)
     /\ scene' = NoScene
     /\ UNCHANGED outsideAudio

\* getUserMedia of a suspended capture start settles.
CaptureSettles ==
  \E outcome \in OutcomesOfCapture :
    LET A2 == CaptureResumes(Audio, outcome # "denied", outcome = "contextFails",
                             outcome = "vadFails")
    IN /\ pendingCaptures > 0
       /\ AudioBecomes(A2)
       /\ PipelineHistory(A2, <<>>)
       /\ scene' = NoScene
       /\ UNCHANGED outsideAudio

\* The audio context of a stopped capture has closed.
ContextCloses ==
  /\ micClosing > 0
  /\ AudioBecomes(MicStopResumes(Audio))
  /\ scene' = NoScene
  /\ UNCHANGED <<settling, speechOpen, outsideAudio>>

\* The processing node delivers a frame.
AudioFrame ==
  /\ workletNode
  /\ AudioBecomes(OnAudioProcess(Audio))
  /\ UNCHANGED <<settling, speechOpen, scene, outsideAudio>>

\* A commit timer fires.
CommitTimerFires ==
  \E t \in commitTimers :
    /\ t.remaining = 0
    /\ AudioBecomes(CommitCallback([Audio EXCEPT !.commitTimers = @ \ {t}]))
    /\ settling' = NoTime
    /\ UNCHANGED <<speechOpen, scene, outsideAudio>>

\* A commit timer fires, with the history of the utterance.
UtteranceCommitTimerFires ==
  \E t \in commitTimers :
    /\ t.remaining = 0
    /\ AudioBecomes(CommitCallback([Audio EXCEPT !.commitTimers = @ \ {t}]))
    /\ settling' = NoTime
    /\ scene' = SceneCommit
    /\ UNCHANGED <<speechOpen, outsideAudio>>

PipelineNext ==
  \/ DoSetState
  \/ DoStartAudioPipeline
  \/ DoStopAudioPipeline
  \/ CaptureSettles
  \/ ContextCloses
  \/ AudioFrame
  \/ CommitTimerFires
  \/ PipelineTimePasses
  \/ PipelineTick

\* The pipeline as the session signal drives it, with the history of the
\* utterance.
UtteranceNext ==
  \/ DoSetState
  \/ CaptureSettles
  \/ ContextCloses
  \/ AudioFrame
  \/ UtteranceCommitTimerFires
  \/ UtteranceTimePasses
  \/ UtteranceTick

\* ------------------------------------------------ the playback scheduler

Durations == 1..MaxDuration

\* The scheduler as one record, the argument of every function.
Player ==
  [audioPlayer |-> audioPlayer, currentTime |-> currentTime,
   nextPlayTime |-> nextPlayTime, activeSources |-> activeSources,
   contextSeq |-> contextSeq, sourceSeq |-> sourceSeq, scheduled |-> scheduled]

PlayerWrites(P) ==
  /\ audioPlayer' = P.audioPlayer
  /\ currentTime' = P.currentTime
  /\ nextPlayTime' = P.nextPlayTime
  /\ activeSources' = P.activeSources
  /\ contextSeq' = P.contextSeq
  /\ sourceSeq' = P.sourceSeq
  /\ scheduled' = P.scheduled

\* The step ends with the scheduler in state P and is a step of nothing else.
PlayerBecomes(P) ==
  /\ PlayerWrites(P)
  /\ UNCHANGED <<vars, dispatchVars, vadVars, pipelineVars, inboundVars, signalVars>>

\* initializeAudioContext(): a new context, whose clock starts at 0; the
\* cursor is set to that clock.
InitializeAudioContext(P) ==
  IF P.audioPlayer # NULL
  THEN P
  ELSE [P EXCEPT !.contextSeq = @ + 1,
                 !.audioPlayer = P.contextSeq + 1,
                 !.currentTime = 0,
                 !.nextPlayTime = 0]

\* getAudioContext()
GetAudioContext(P) ==
  IF P.audioPlayer = NULL THEN InitializeAudioContext(P) ELSE P

\* playAudioChunk() were it to schedule at the cursor whatever the clock
PlayAudioChunk_AtCursor(P, duration) ==
  LET C == GetAudioContext(P)
      scheduleTime == C.nextPlayTime
      source == [id |-> C.sourceSeq + 1, context |-> C.audioPlayer,
                 start |-> scheduleTime, end |-> scheduleTime + duration]
  IN [C EXCEPT !.sourceSeq = @ + 1,
               !.activeSources = @ \cup {source},
               !.nextPlayTime = scheduleTime + duration,
               !.scheduled = Append(@, [clock |-> C.currentTime,
                                        start |-> scheduleTime,
                                        end |-> scheduleTime + duration])]

\* playAudioChunk() were it to schedule at the clock whatever the cursor
PlayAudioChunk_AtClock(P, duration) ==
  LET C == GetAudioContext(P)
      scheduleTime == C.currentTime
      source == [id |-> C.sourceSeq + 1, context |-> C.audioPlayer,
                 start |-> scheduleTime, end |-> scheduleTime + duration]
  IN [C EXCEPT !.sourceSeq = @ + 1,
               !.activeSources = @ \cup {source},
               !.nextPlayTime = scheduleTime + duration,
               !.scheduled = Append(@, [clock |-> C.currentTime,
                                        start |-> scheduleTime,
                                        end |-> scheduleTime + duration])]

\* playAudioChunk(audioData), by the duration of the buffer made of the data
PlayAudioChunk(P, duration) ==
  LET C == GetAudioContext(P)
      scheduleTime == Max(C.currentTime, C.nextPlayTime)
      source == [id |-> C.sourceSeq + 1, context |-> C.audioPlayer,
                 start |-> scheduleTime, end |-> scheduleTime + duration]
  IN [C EXCEPT !.sourceSeq = @ + 1,
               !.activeSources = @ \cup {source},
               !.nextPlayTime = scheduleTime + duration,
               !.scheduled = Append(@, [clock |-> C.currentTime,
                                        start |-> scheduleTime,
                                        end |-> scheduleTime + duration])]

\* stopAudioPlayback()
StopAudioPlayback(P) ==
  IF P.audioPlayer = NULL
  THEN P
  ELSE [P EXCEPT !.activeSources = {},
                 !.nextPlayTime = P.currentTime,
                 !.scheduled = <<>>]

\* resetAudioPlayback(): closes and drops the context, leaves the sources
ResetAudioPlayback(P) ==
  IF P.audioPlayer # NULL
  THEN [P EXCEPT !.audioPlayer = NULL,
                 !.currentTime = 0,
                 !.nextPlayTime = 0,
                 !.scheduled = <<>>]
  ELSE P

\* source.onended: the source leaves the set
SourceEnds(P, source) == [P EXCEPT !.activeSources = @ \ {source}]

PlaybackInit ==
  /\ audioPlayer = NULL
  /\ currentTime = 0
  /\ nextPlayTime = 0
  /\ activeSources = {}
  /\ contextSeq = 0
  /\ sourceSeq = 0
  /\ scheduled = <<>>
  /\ cancelled = FALSE

DoGetAudioContext ==
  /\ audioPlayer = NULL
  /\ contextSeq < MaxContexts
  /\ PlayerBecomes(GetAudioContext(Player))
  /\ cancelled' = FALSE

DoPlayAudioChunk ==
  /\ sourceSeq < MaxChunks
  /\ audioPlayer = NULL => contextSeq < MaxContexts
  /\ \E duration \in Durations : PlayerBecomes(PlayAudioChunk(Player, duration))
  /\ cancelled' = FALSE

DoStopAudioPlayback ==
  /\ PlayerBecomes(StopAudioPlayback(Player))
  /\ cancelled' = TRUE

DoResetAudioPlayback ==
  /\ PlayerBecomes(ResetAudioPlayback(Player))
  /\ cancelled' = FALSE

\* The clock of the output context moves on.
ClockAdvances ==
  /\ audioPlayer # NULL
  /\ currentTime < MaxClock
  /\ PlayerBecomes([Player EXCEPT !.currentTime = @ + 1])
  /\ cancelled' = FALSE

\* A source of the live context has played to its end.
SourceEnded ==
  \E source \in activeSources :
    /\ source.context = audioPlayer
    /\ source.end <= currentTime
    /\ PlayerBecomes(SourceEnds(Player, source))
    /\ cancelled' = FALSE

PlaybackNext ==
  \/ DoGetAudioContext
  \/ DoPlayAudioChunk
  \/ DoStopAudioPlayback
  \/ DoResetAudioPlayback
  \/ ClockAdvances
  \/ SourceEnded

\* ------------------------------------------------ the inbound pipeline

\* AudioPipelineState
InboundStates == {"idle", "receiving", "playing", "complete"}

\* What an audio_chunk message carries: audio that plays, a string that is
\* not base64, audio the scheduler cannot make a buffer of, or no audio.
ChunkKinds == {"plays", "undecodable", "unplayable", "none"}

\* handleAudioChunk(message): the state it leaves
HandleInboundChunk(state, kind) ==
  IF kind = "none"
  THEN state
  ELSE IF kind = "undecodable"
       THEN "idle"
       ELSE IF kind = "unplayable"
            THEN "idle"
            ELSE IF state = "receiving" THEN "playing" ELSE state

\* handleAudioChunk(message): the scheduler it leaves
PlayInboundChunk(P, kind, duration) ==
  IF kind = "plays"
  THEN PlayAudioChunk(P, duration)
  ELSE IF kind = "unplayable"
       THEN GetAudioContext(P)
       ELSE P

InboundInit ==
  /\ inboundState = "idle"
  /\ resetTimers = 0
  /\ interrupted = FALSE

\* the step is a step of the inbound pipeline alone
InboundOnly == UNCHANGED <<vars, dispatchVars, vadVars, pipelineVars, playbackVars, signalVars>>

\* a response_started message arrives
ResponseStarted ==
  /\ inboundState' = "receiving"
  /\ interrupted' = FALSE
  /\ UNCHANGED resetTimers
  /\ InboundOnly

\* an audio_chunk message arrives
AudioChunkArrives ==
  \E kind \in ChunkKinds, duration \in Durations :
    /\ kind = "plays" => sourceSeq < MaxChunks
    /\ (kind \in {"plays", "unplayable"} /\ audioPlayer = NULL) => contextSeq < MaxContexts
    /\ inboundState' = HandleInboundChunk(inboundState, kind)
    /\ PlayerWrites(PlayInboundChunk(Player, kind, duration))
    /\ cancelled' = FALSE
    /\ UNCHANGED <<resetTimers, interrupted, vars, dispatchVars, vadVars, pipelineVars,
                   signalVars>>

\* a response_done message arrives
ResponseDone ==
  /\ resetTimers < MaxResetTimers
  /\ inboundState' = "complete"
  /\ resetTimers' = resetTimers + 1
  /\ UNCHANGED interrupted
  /\ InboundOnly

\* a speech_started message arrives
BackendSpeechStarted ==
  /\ inboundState' = "playing"
  /\ UNCHANGED <<resetTimers, interrupted>>
  /\ InboundOnly

\* an error message arrives
BackendError ==
  /\ inboundState' = "idle"
  /\ UNCHANGED <<resetTimers, interrupted>>
  /\ InboundOnly

\* a timer armed by handleResponseDone() fires and calls reset()
ResetTimerFires ==
  /\ resetTimers > 0
  /\ resetTimers' = resetTimers - 1
  /\ inboundState' = "idle"
  /\ UNCHANGED interrupted
  /\ InboundOnly

InboundNext ==
  \/ ResponseStarted
  \/ AudioChunkArrives
  \/ ResponseDone
  \/ BackendSpeechStarted
  \/ BackendError
  \/ ResetTimerFires
  \/ ClockAdvances

\* ------------------------------------------------------------ barge-in

\* The detector reports a speech-start and the coordinator's handler runs:
\* handleSpeechDetection(true) stops the playback, sends response.cancel,
\* clears a pending commit timer and marks speech active.  The inbound
\* pipeline is not told.  It is a barge-in when a response is being
\* received or played.
SpeechStartInterrupts ==
  /\ AudioBecomes(HandleSpeechDetection(Audio, TRUE))
  /\ PlayerWrites(StopAudioPlayback(Player))
  /\ cancelled' = TRUE
  /\ interrupted' = (interrupted \/ inboundState \in {"receiving", "playing"})
  /\ UNCHANGED <<inboundState, resetTimers, pipelineHistory, tickHistory, pendingStarts,
                 vars, dispatchVars, signalVars>>

BargeInNext ==
  \/ ResponseStarted
  \/ AudioChunkArrives
  \/ ResponseDone
  \/ ResetTimerFires
  \/ ClockAdvances
  \/ SourceEnded
  \/ SpeechStartInterrupts

\* ------------------------------------------------------- calculateRMS
\* The byte at which a sample is centred and by which it is scaled.
SampleMid == 128
\* The level 1.0 in the units of measuredRms: a tenth of a sample step.
RmsOne == 10 * SampleMid

\* The largest r in lo..hi with r * r <= n, by bisection.
RECURSIVE SqrtBetween(_, _, _)
SqrtBetween(n, lo, hi) ==
  IF lo = hi THEN lo
  ELSE LET mid == (lo + hi + 1) \div 2
       IN IF mid * mid <= n THEN SqrtBetween(n, mid, hi) ELSE SqrtBetween(n, lo, mid - 1)

\* Math.sqrt on the fixed-point scale: the largest r with r * r <= n.
ISqrt(n) == SqrtBetween(n, 0, 2 * RmsOne)

\* The loop of calculateRMS: the sum of the squares of the normalised
\* samples, in units of 1 / SampleMid^2.
RECURSIVE SumOfSquares(_)
SumOfSquares(data) ==
  IF data = <<>> THEN 0
  ELSE (Head(data) - SampleMid) * (Head(data) - SampleMid) + SumOfSquares(Tail(data))

\* Variant: the samples are scaled without being centred.
CalculateRMS_Uncentred(data) ==
  LET RECURSIVE Squares(_)
      Squares(d) == IF d = <<>> THEN 0 ELSE Head(d) * Head(d) + Squares(Tail(d))
  IN ISqrt(((RmsOne \div SampleMid) * (RmsOne \div SampleMid) * Squares(data))
             \div Len(data))

\* calculateRMS(data) = Math.sqrt(sum / data.length), in units of 1 / RmsOne.
CalculateRMS(data) ==
  ISqrt(((RmsOne \div SampleMid) * (RmsOne \div SampleMid) * SumOfSquares(data))
          \div Len(data))

\* Byte values of a sample: the ends of the range, silence and its neighbours.
Samples == {0, 1, SampleMid - 1, SampleMid, SampleMid + 1, 255}

\* The buffers of fftSize samples the analyser fills (fftSize is at least 32
\* in the browser, so never empty).
Buffers == UNION {[1..n -> Samples] : n \in 1..MaxLen}

SignalInit ==
  /\ timeDomainData = <<>>
  /\ measuredRms = 0

\* One analysis: getByteTimeDomainData fills the buffer and calculateRMS
\* measures it.
ReadTimeDomainData ==
  \E data \in Buffers :
    /\ timeDomainData' = data
    /\ measuredRms' = CalculateRMS(data)
    /\ UNCHANGED <<vars, dispatchVars, vadVars, pipelineVars, playbackVars, inboundVars>>

SignalNext == ReadTimeDomainData

\* ------------------------------------------------------- specifications

\* Every object as it is after construction.
Init == TransportInit /\ DispatchInit /\ VADInit /\ PipelineInit /\ PlaybackInit
        /\ InboundInit /\ SignalInit

TransportSpec == Init /\ [][TransportNext]_allVars

\* The close event of a channel that is closing (close() was called on it).
ClosingChannelCloses ==
  /\ SocketClose
  /\ \E s \in 1..Len(sockets) : sockets[s] = "CLOSING" /\ sockets'[s] = "CLOSED"

\* The transport with the close event of every closing channel delivered.
TransportLiveSpec ==
  Init /\ [][TransportNext]_allVars /\ WF_allVars(ClosingChannelCloses)

DispatchSpec == Init /\ [][DispatchNext]_allVars

VADSpec == Init /\ [][VADNext]_allVars

PipelineSpec == Init /\ [][PipelineNext]_allVars

UtteranceSpec == Init /\ [][UtteranceNext]_allVars

PlaybackSpec == Init /\ [][PlaybackNext]_allVars

CalibrationSpec == Init /\ [][CalibrationNext]_allVars

InboundSpec == Init /\ [][InboundNext]_allVars

SignalSpec == Init /\ [][SignalNext]_allVars

BargeInSpec == Init /\ [][BargeInNext]_allVars

\* ------------------------------------------------- vocabulary of the claims

\* ids of the messages of a queue, in order
Ids(queue) == [i \in 1..Len(queue) |-> queue[i].id]

IdSet(queue) == {queue[i].id : i \in 1..Len(queue)}

\* the members of seq that are in set, in the order of seq
RECURSIVE Restrict(_, _)
Restrict(seq, set) ==
  IF seq = <<>>
  THEN <<>>
  ELSE IF Head(seq) \in set
       THEN <<Head(seq)>> \o Restrict(Tail(seq), set)
       ELSE Restrict(Tail(seq), set)

\* a is b with some members left out
RECURSIVE IsSubSeq(_, _)
IsSubSeq(a, b) ==
  IF a = <<>>
  THEN TRUE
  ELSE IF b = <<>>
       THEN FALSE
       ELSE IF Head(a) = Head(b)
            THEN IsSubSeq(Tail(a), Tail(b))
            ELSE IsSubSeq(a, Tail(b))

\* what this step handed to WebSocket.send
NewlySent == SubSeq(sent', Len(sent) + 1, Len(sent'))

\* this step is the open event of socket s
Opens(s) == sockets[s] = "CONNECTING" /\ sockets'[s] = "OPEN"

\* this step is the close event of socket s
Closes(s) == sockets[s] # "CLOSED" /\ sockets'[s] = "CLOSED"

\* this step armed a reconnect timer
Scheduled == timerSeq' # timerSeq

\* the delay of the timer this step armed
ScheduledDelay == (CHOOSE t \in timers' : t.id = timerSeq').delay

\* ------------------------------------------------------------- claims

\* C1: messages passed to send() while the channel is not open are all
\* transmitted, once each and in the order of the calls, by the open event of
\* the connection, and the queue is empty afterwards.  Stated for the messages
\* that can be serialised at all: the open event of the current socket
\* transmits every such queued message, in queue order.
C1_QueuedDeliveredAtOpen ==
  [][\A s \in 1..Len(sockets) :
       (s = ws /\ Opens(s)) =>
         LET deliverable == {messageQueue[i].id :
                               i \in {j \in 1..Len(messageQueue) : messageQueue[j].ok}}
         IN /\ messageQueue' = <<>>
            /\ Restrict(NewlySent, deliverable) = Restrict(Ids(messageQueue), deliverable)
    ]_vars

\* C2: messages are transmitted in the order in which they were passed to
\* send(): ids are given in call order, so the wire carries increasing ids.
C2_TransmitInSubmissionOrder ==
  \A i, j \in 1..Len(sent) : i < j => sent[i] < sent[j]

\* C3: a flush loses no message: every message queued when the flush of an
\* open event starts is afterwards either transmitted or back in the queue, in
\* its original relative order.  (The messages queued before the open event
\* are in the queue when its flush starts.)
C3_FlushLosesNothing ==
  [][\A s \in 1..Len(sockets) :
       Opens(s) =>
         LET queued == IdSet(messageQueue)
             transmitted == Restrict(NewlySent, queued)
             requeued == Restrict(Ids(messageQueue'), queued)
         IN /\ IsSubSeq(transmitted, Ids(messageQueue))
            /\ IsSubSeq(requeued, Ids(messageQueue))
            /\ Len(transmitted) + Len(requeued) = Len(messageQueue)
    ]_vars

\* C4: the k-th consecutive unexpected closure (k from 0) schedules a
\* reconnect after min(1000 * 2^k, 30000) ms.
C4_BackoffOverClosures ==
  [][unexpectedClosures' = unexpectedClosures + 1 =>
       /\ Scheduled
       /\ ScheduledDelay = Min(baseDelay * 2^unexpectedClosures, maxReconnectDelay)
    ]_vars

\* C5: after an unexpected closure, with reconnection enabled and no
\* disconnect(), at every later moment a reconnect is pending, a connection
\* attempt is in progress or the state is Connected.
C5_KeepsRetrying ==
  unexpectedClosures > 0 =>
    \/ timers # {}
    \/ connectionState \in {"connecting", "connected"}

\* C6: a close event of the open current connection that no disconnect()
\* caused schedules a reconnect, also when disconnect() was called on an
\* earlier connection (reconnection not switched off by disableReconnect()).
C6_DisconnectSuppressesOnce ==
  [][\A s \in 1..Len(sockets) :
       (/\ s = ws
        /\ sockets[s] = "OPEN"
        /\ Closes(s)
        /\ connectionState = "connected"
        /\ ~manualDisconnect
        /\ ~userDisabled) => Scheduled
    ]_vars

\* C7: from disconnect() until the next connect() no reconnect timer is
\* pending, whatever events arrive.  manualDisconnect is set by disconnect()
\* and cleared only by a connect() call, so it holds during that whole time.
C7_NoTimerAfterDisconnect ==
  manualDisconnect => timers = {} /\ reconnectTimer = NULL

\* C7 witness: after disconnect(), with reconnection switched on again, the
\* close event of the connection has arrived.
C7_Witness ==
  /\ manualDisconnect
  /\ shouldReconnect
  /\ reconnectAttempts > 0
  /\ connectionState = "disconnected"
  /\ ws # NULL
  /\ sockets[ws] = "CLOSED"

\* C8: every scheduled reconnect uses delay min(1000 * 2^a, 30000) for the
\* counter value a at scheduling and adds one to the counter; the counter
\* changes otherwise only by an open event, to zero; every pending delay is
\* within [1000, 30000].
C8_DelayFromCounter ==
  [][/\ Scheduled =>
          /\ ScheduledDelay = Min(baseDelay * 2^reconnectAttempts, maxReconnectDelay)
          /\ reconnectAttempts' = reconnectAttempts + 1
     /\ reconnectAttempts' # reconnectAttempts =>
          \/ Scheduled
          \/ reconnectAttempts' = 0 /\ \E s \in 1..Len(sockets) : Opens(s)
     /\ \A t \in timers' : baseDelay <= t.delay /\ t.delay <= maxReconnectDelay
    ]_vars

\* C8 witness: a reconnect scheduled at counter value 5 is pending, with the
\* capped delay.
C8_Witness ==
  /\ reconnectAttempts = 6
  /\ \E t \in timers : t.id = reconnectTimer /\ t.delay = maxReconnectDelay

\* C9: at most one reconnect timer is pending, and it is the tracked one.
C9_SingleTimer ==
  /\ Cardinality(timers) <= 1
  /\ \A t \in timers : t.id = reconnectTimer

\* C9 witness: a reconnect was scheduled after an earlier one with no open
\* event in between, and one timer is pending.
C9_Witness ==
  /\ reconnectAttempts >= 2
  /\ Cardinality(timers) = 1

\* C10: when opening the connection fails, connect() does not throw, and when
\* the current socket closes before it ever opened the state becomes
\* Disconnected and a reconnect is scheduled, unless reconnection is disabled
\* or disconnect() was called.
C10_OpenFailureSchedulesReconnect ==
  [][/\ thrown' # "connect"
     /\ \A s \in 1..Len(sockets) :
          (s = ws /\ sockets[s] = "CONNECTING" /\ Closes(s)) =>
            /\ connectionState' = "disconnected"
            /\ (shouldReconnect /\ ~manualDisconnect) => Scheduled
    ]_vars

\* C11: connect() called while the state is Connecting or Connected opens no
\* channel and leaves the connection state, the queue, the attempt counter,
\* the pending reconnect timer and the intentional-disconnect flag as they
\* were; called in any other state it opens exactly one channel and sets the
\* state to Connecting.
C11_ConnectFrameAndEffect ==
  [][DoConnect =>
       IF connectionState \in {"connecting", "connected"}
       THEN UNCHANGED <<sockets, ws, connectionState, messageQueue,
                        reconnectAttempts, reconnectTimer, timers, manualDisconnect>>
       ELSE /\ Len(sockets') = Len(sockets) + 1
            /\ sockets'[Len(sockets')] = "CONNECTING"
            /\ connectionState' = "connecting"
    ]_vars

\* ids of a list of handlers, in registration order
HandlerIds(handlers) == [i \in 1..Len(handlers) |-> handlers[i].id]

\* C12: a parsed inbound message calls every handler registered for its type
\* exactly once, in registration order, and no handler of another type; a
\* handler that throws does not keep the later ones from being called, and
\* the message event changes neither the connection state nor the queue.
C12_DispatchInRegistrationOrder ==
  [][\A s \in 1..Len(sockets), type \in MessageTypes :
       MessageArrives(s, TRUE, type) =>
         /\ invoked' = HandlerIds(messageHandlers[type])
         /\ UNCHANGED <<connectionState, messageQueue>>
    ]_allVars

\* C12 witness: the last message went to two handlers of one type, the first
\* of which throws, on a client that is connected.
C12_Witness ==
  /\ connectionState = "connected"
  /\ \E type \in MessageTypes :
       /\ Len(messageHandlers[type]) = 2
       /\ messageHandlers[type][1].throws
       /\ invoked = HandlerIds(messageHandlers[type])

\* C13: the detector's state is always one of Idle, Calibrating, Detecting,
\* Stopped and changes only along these edges: a start takes Idle or Stopped
\* to Calibrating; the tick that fills the calibration accumulator takes
\* Calibrating to Detecting; recalibrate takes Detecting to Calibrating and
\* changes nothing in any other state; stop takes every state to Stopped.
C13_StateMachineEdges ==
  [][/\ vadState' \in VADStates
     /\ (vadState' # vadState) =>
          \/ /\ DoStartDetection \/ GetUserMediaSettles
             /\ vadState \in {"idle", "stopped"}
             /\ vadState' = "calibrating"
          \/ /\ AnalysisTick
             /\ vadState = "calibrating" /\ vadState' = "detecting"
             /\ calibrationSamples' >= calibrationTarget
          \/ DoRecalibrate /\ vadState = "detecting" /\ vadState' = "calibrating"
          \/ DoStopDetection /\ vadState' = "stopped"
     /\ DoStopDetection => vadState' = "stopped"
     /\ (DoRecalibrate /\ vadState # "detecting") => UNCHANGED vadVars
    ]_allVars

\* the last step fired the speech-start callback
SpeechStartFired == vadEvents = <<"start">>

\* the last step fired the speech-end callback
SpeechEndFired == vadEvents = <<"end">>

\* C14: speech-start fires at a tick only if every analysis tick of the
\* preceding minimumSpeechDuration was flagged; in particular a flagged tick
\* that follows a non-flagged tick does not fire it.  Stated for every
\* execution, also after stop()/start() and recalibrate().
C14_SpeechStartAfterMinimumDuration ==
  SpeechStartFired =>
    /\ flaggedSince # NoTime
    /\ Elapsed(flaggedSince) >= minimumSpeechDuration

\* C15: speech-end fires at a tick only if a speech-start was confirmed
\* before it and every analysis tick of the preceding hangoverTime was
\* non-flagged, a flagged tick restarting the count.  Stated for every
\* execution, also when recalibrate() occurred while speaking.
C15_SpeechEndAfterHangover ==
  [][SpeechEndFired' =>
       /\ unmatchedStart
       /\ quietSince' # NoTime
       /\ Elapsed(quietSince') >= hangoverTime
    ]_allVars

\* C16: with the default settings, the detector in Detecting and the
\* pipeline running, an utterance flagged for 150 ms has fired speech-start
\* exactly once; up to 250 ms of the silence after it no speech-end has
\* fired; by 350 ms of silence (a first non-flagged tick more than 320 ms
\* ago, ticks being 30 ms apart) exactly one speech-end has fired; and
\* exactly one buffer-commit is sent, 300 ms after that speech-end.
C16_UtteranceScenario ==
  /\ scene.starts <= 1
  /\ (scene.phase = "speech" /\ scene.t >= 150) => scene.starts = 1
  /\ scene.phase = "silence" =>
       /\ scene.starts = 1
       /\ scene.ends <= 1
       /\ scene.t <= 250 => scene.ends = 0
       /\ scene.t > 350 - updateInterval => scene.ends = 1
       /\ scene.commits <= 1
       /\ scene.commits = 1 => (scene.tEnd # NoTime /\ Elapsed(scene.tEnd) >= 300)
       /\ (scene.tEnd # NoTime /\ Elapsed(scene.tEnd) > 300) => scene.commits = 1

\* The utterance ran to its end: the commit was sent 300 ms after the speech-end.
C16_Witness ==
  /\ scene.phase = "silence"
  /\ scene.starts = 1
  /\ scene.ends = 1
  /\ scene.commits = 1
  /\ Elapsed(scene.tEnd) = 300
  /\ calls = <<"input_audio_buffer.commit">>

\* The number of times the step called x.
Count(seq, x) == Cardinality({i \in 1..Len(seq) : seq[i] = x})

\* The commit timers pending are those of the settling speech-end: one
\* timer with what is left of the 300 ms, and none when nothing settles.
TimerOfSettling ==
  IF settling = NoTime
  THEN commitTimers = {}
  ELSE \E t \in commitTimers :
         /\ commitTimers = {t}
         /\ t.remaining = COMMIT_DEBOUNCE_MS - Elapsed(settling)

\* C17: a buffer-commit is sent only when 300 ms have gone by since the most
\* recent speech-end with no speech-start and no pipeline stop in between,
\* and then exactly one; until then exactly one commit timer is pending for
\* that speech-end, and none is pending once a speech-start or a stop
\* followed it, so at most one timer is pending at any time.
C17_CommitAfterSettledSpeechEnd ==
  /\ TimerOfSettling
  /\ [][/\ TimerOfSettling'
        /\ Count(calls', "input_audio_buffer.commit") > 0 =>
             /\ settling # NoTime
             /\ Elapsed(settling) >= COMMIT_DEBOUNCE_MS
             /\ Count(calls', "input_audio_buffer.commit") = 1
       ]_allVars

\* A commit was sent for a speech-end that settled.
C17_Witness ==
  /\ calls = <<"input_audio_buffer.commit">>
  /\ isRunning
  /\ commitTimers = {}

\* The step is a frame of the capture that reaches the coordinator.
FrameArrives == isCapturing /\ onAudioChunk /\ AudioFrame

\* C19: an input_audio_buffer.append is sent only for a frame that arrives
\* while the pipeline is running and a speech-start is open (no speech-end
\* and no stop of the pipeline followed it), and such a frame sends exactly
\* one; every other frame and every other step sends none.
C19_AppendOnlyWhileSpeechOpen ==
  [][Count(calls', "input_audio_buffer.append") =
       IF isRunning /\ speechOpen /\ FrameArrives THEN 1 ELSE 0
    ]_allVars

\* A frame was forwarded.
C19_Witness ==
  /\ calls = <<"input_audio_buffer.append">>
  /\ isRunning
  /\ speechOpen

\* C18: a speech-start the detector fires while the pipeline is running
\* sends exactly one response.cancel and stops the playback exactly once.
C18_OneCancelPerSpeechStart ==
  [][(isRunning /\ vadEvents' = <<"start">>) =>
       /\ Count(calls', "response.cancel") = 1
       /\ Count(calls', "stopAudioPlayback") = 1
    ]_allVars

\* C20: after a startAudioPipeline() that ended by throwing, the capture is
\* not active, the detector is not running, no callback is attached and the
\* pipeline is not running.
C20_RejectedStartLeavesNothingStarted ==
  startRejected =>
    /\ ~isCapturing
    /\ updateIntervalId = NULL
    /\ ~analyserNode
    /\ callbacks = 0
    /\ ~onAudioChunk
    /\ ~isRunning

\* The coordinator's own state, the resources it starts and stops (capture,
\* detector; a connect or a send would show in calls) and the callbacks it
\* registers.
coordinatorState == <<isRunning, isSpeechActive, commitDebounceTimer, commitTimers>>
coordinatorResources ==
  <<isCapturing, micStream, micContext, workletNode, micClosing, pendingCaptures,
    vadState, isSpeaking, updateIntervalId, analyserNode, calibrationSamples,
    intervals, due>>
coordinatorCallbacks == <<callbacks, onAudioChunk>>

\* The step did nothing to the coordinator, its resources and its callbacks.
NoOp ==
  /\ UNCHANGED <<coordinatorState, coordinatorResources, coordinatorCallbacks>>
  /\ calls' = <<>>
  /\ ~startRejected'

\* A start of a running pipeline or a stop of a stopped one, called directly
\* or through the session signal.
RedundantCall ==
  \/ isRunning /\ UNCHANGED therapyState /\ DoStartAudioPipeline
  \/ ~isRunning /\ UNCHANGED therapyState /\ DoStopAudioPipeline
  \/ isRunning /\ therapyState' = "active_therapy" /\ DoSetState
  \/ ~isRunning /\ therapyState' # "active_therapy" /\ DoSetState

\* C21: startAudioPipeline() while the pipeline is running and
\* stopAudioPipeline() while it is not running, called directly or through
\* the session signal, change no coordinator state, start or stop no
\* resource and register or remove no callback.
C21_RedundantStartStopIsNoOp == [][NoOp \/ ~RedundantCall]_allVars

\* A redundant start came while speech was being forwarded: no start is
\* waiting for the microphone and no capture is closing, and the pipeline
\* still runs with its one callback.
C21_Witness ==
  /\ isRunning
  /\ isSpeechActive
  /\ speechOpen
  /\ calls = <<>>
  /\ callbacks = 1
  /\ isCapturing
  /\ pendingCaptures = 0
  /\ micClosing = 0


\* ------------------------------------------------ the playback scheduler

\* C22: in a sequence of playAudioChunk() calls that no stopAudioPlayback()
\* or resetAudioPlayback() interrupts, whatever the clock at each call, a
\* chunk starts at the later of the clock at its call and the end of the
\* chunk scheduled before it; start times follow the order of the calls,
\* no chunk starts before the one before it ends, and nextPlayTime is the
\* end of the chunk scheduled last.
C22_ChunksFollowOneAnother ==
  /\ \A i \in 1..Len(scheduled) :
       /\ scheduled[i].start >= scheduled[i].clock
       /\ i > 1 =>
            /\ scheduled[i].start = Max(scheduled[i].clock, scheduled[i - 1].end)
            /\ scheduled[i].start > scheduled[i - 1].start
            /\ scheduled[i].start >= scheduled[i - 1].end
  /\ scheduled # <<>> => nextPlayTime = scheduled[Len(scheduled)].end

\* three chunks in a row, one called while the chunk before it was still to
\* end, one called after the chunk before it had ended
C22_Witness ==
  /\ Len(scheduled) = 3
  /\ scheduled[2].clock < scheduled[1].end
  /\ scheduled[3].clock > scheduled[2].end

RECURSIVE Played(_, _)
\* the durations of the first n chunks of a schedule, added up
Played(schedule, n) ==
  IF n = 0 THEN 0
  ELSE Played(schedule, n - 1) + (schedule[n].end - schedule[n].start)

\* C23: chunks scheduled one after another while the clock stands at 0
\* start at 0, d1, d1 + d2, and whenever the clock at a call has not passed
\* the end of the chunk before, the chunk starts exactly at that end.
C23_BackToBackWithoutGap ==
  /\ (\A i \in 1..Len(scheduled) : scheduled[i].clock = 0) =>
       \A i \in 1..Len(scheduled) : scheduled[i].start = Played(scheduled, i - 1)
  /\ \A i \in 2..Len(scheduled) :
       scheduled[i].clock <= scheduled[i - 1].end =>
         scheduled[i].start = scheduled[i - 1].end

\* three chunks of two different durations on the first context, the clock at 0
C23_Witness ==
  /\ contextSeq = 1
  /\ currentTime = 0
  /\ Len(scheduled) = 3
  /\ scheduled[1].end - scheduled[1].start # scheduled[2].end - scheduled[2].start
  /\ scheduled[3].start = Played(scheduled, 2)
  /\ Cardinality(activeSources) = 3

\* C24: stopAudioPlayback() leaves no source in the active set and the
\* cursor at the current clock, whatever was playing or scheduled, and the
\* chunk scheduled next starts at the clock of its call.
C24_CancelAllClearsSchedule ==
  /\ cancelled => activeSources = {} /\ nextPlayTime = currentTime
  /\ scheduled # <<>> => scheduled[1].start = scheduled[1].clock

\* ------------------------------------------------ the detector, continued

\* C25: once stopDetection() has returned the detector is Stopped, not
\* speaking, and none of its analysis timers is alive, whatever calls came
\* before; after a later start the one timer alive is the timer of that
\* start; a second stopDetection() changes nothing.
C25_StopLeavesNoTimer ==
  /\ [](vadState = "stopped" => ~isSpeaking /\ intervals = {})
  /\ [](intervals \subseteq {updateIntervalId})
  /\ [][(DoStopDetection /\ vadState = "stopped") => UNCHANGED vadVars]_allVars

\* getUserMedia rejects and the startDetection() waiting for it throws
AcquisitionFails == GetUserMediaSettles /\ vadThrew'

\* C26: when getUserMedia rejects, startDetection() calls the error
\* callback once and throws; the call leaves the state of the detector as
\* it is, starts no analysis timer and asks for no stream again.
C26_AcquisitionFailureReportedOnce ==
  [][AcquisitionFails =>
       /\ vadErrors' = 1
       /\ vadState' = vadState
       /\ UNCHANGED <<isSpeaking, updateIntervalId, analyserNode, calibrationSamples,
                      intervals, due>>
       /\ vadEvents' = <<>>
       /\ pendingStarts' = pendingStarts - 1]_allVars

\* the start of a fresh detector has just failed
C26_Witness ==
  /\ vadThrew
  /\ vadErrors = 1
  /\ vadState = "idle"
  /\ intervals = {}
  /\ pendingStarts = 0

\* C27: whenever a calibration phase begins, by startDetection() or by
\* recalibrate(), the running RMS sum, every per-bin sum and the sample
\* counter are zero.
C27_AccumulatorEmptyAtCalibrationStart ==
  (vadState = "calibrating" /\ calibrationSamples = 0) =>
     /\ noiseFloorRMS = 0
     /\ \A b \in Bins : noiseFloorFrequency[b] = 0

\* the tick that completes a calibration
CalibrationCompletes == CalibrationTick /\ vadState = "calibrating" /\ vadState' = "detecting"

\* C28: the RMS threshold a completed calibration derives is within
\* [minThreshold, maxThreshold] and not below the threshold configured
\* when the calibration completed, whatever that threshold and whatever
\* the noise floor measured.
C28_DynamicThresholdInRange ==
  [][CalibrationCompletes =>
       /\ rmsThreshold' >= minThreshold
       /\ rmsThreshold' <= maxThreshold
       /\ rmsThreshold' >= rmsThreshold]_allVars

\* ------------------------------------------------ the inbound pipeline

\* C29: the inbound state is one of Idle, Receiving, Playing, Complete;
\* response_started sets Receiving, an audio chunk that plays sets Playing
\* when the state is Receiving, response_done sets Complete, and a reset
\* timer moves Complete to Idle and no other state.
C29_InboundStateMachine ==
  /\ [](inboundState \in InboundStates)
  /\ [][/\ ResponseStarted => inboundState' = "receiving"
        /\ ResponseDone => inboundState' = "complete"
        /\ (AudioChunkArrives /\ inboundState = "receiving" /\ sourceSeq' > sourceSeq) =>
             inboundState' = "playing"
        /\ ResetTimerFires =>
             \/ inboundState = "complete" /\ inboundState' = "idle"
             \/ inboundState' = inboundState]_allVars

\* ------------------------------------------------ the microphone capture

\* A start of the pipeline is rejected because MicrophoneCapture.start()
\* threw.  With the pipeline not running the catch block of the pipeline
\* stops nothing, so the capture is left as its own start left it: not
\* capturing when it threw, capturing when a later step of the pipeline's
\* start threw.
CaptureStartFails == CaptureSettles /\ ~isRunning /\ startRejected' /\ ~isCapturing'

\* C30: when MicrophoneCapture.start() throws, the capture is not marked
\* capturing and holds nothing: no media stream, no audio context, no
\* processing node.
C30_FailedCaptureHoldsNothing ==
  [][CaptureStartFails => ~micStream' /\ ~micContext' /\ ~workletNode']_allVars

\* C31: for every non-empty buffer of 8-bit samples calculateRMS returns a
\* level in [0, 1], and the level is 0 exactly when every sample is 128.
C31_RmsInUnitRange ==
  timeDomainData # <<>> =>
    /\ measuredRms >= 0
    /\ measuredRms <= RmsOne
    /\ measuredRms = 0 <=> \A i \in DOMAIN timeDomainData : timeDomainData[i] = SampleMid

\* A buffer of the longest length with every sample at the bottom of the
\* range was measured: the level is 1.
C31_Witness ==
  /\ Len(timeDomainData) = MaxLen
  /\ \A i \in DOMAIN timeDomainData : timeDomainData[i] = 0
  /\ measuredRms = RmsOne

\* C32: whenever the session signal is inactive and no start of the
\* pipeline is in progress, the pipeline is not running and the capture
\* and the detector are stopped.
C32_InactiveSessionStopsPipeline ==
  (therapyState # "active_therapy" /\ pendingCaptures = 0) =>
    /\ ~isRunning
    /\ ~isCapturing
    /\ vadState \in {"idle", "stopped"}

\* C33: the connection state agrees with the current channel: the state
\* is Connected only while the current channel is open, the state is not
\* Disconnected while the current channel is open, and no two channels are
\* open at once.
C33_StateAgreesWithChannel ==
  /\ connectionState = "connected" => (ws # NULL /\ sockets[ws] = "OPEN")
  /\ (ws # NULL /\ sockets[ws] = "OPEN") => connectionState # "disconnected"
  /\ Cardinality({s \in 1..Len(sockets) : sockets[s] = "OPEN"}) <= 1

\* C34: with the close events of closing channels delivered, the state
\* Disconnecting that disconnect() or destroy() sets is followed by the
\* state Disconnected.
C34_DisconnectingEnds ==
  (connectionState = "disconnecting") ~> (connectionState = "disconnected")

\* C35: over the lifetime of a detector speech-start and speech-end
\* alternate, beginning with speech-start: a speech-start fires only when
\* every earlier one was followed by a speech-end, and a speech-end only
\* when a speech-start has fired since the last speech-end.
C35_StartAndEndAlternate ==
  [][/\ SpeechStartFired' => ~unmatchedStart
     /\ SpeechEndFired' => unmatchedStart
    ]_allVars

\* C36: the speaking flag is true only while the detector is in Detecting;
\* in Idle, Calibrating and Stopped it is false.
C36_SpeakingOnlyWhileDetecting == isSpeaking => vadState = "detecting"

\* The pipeline is started, with the connection in order, while a stop of
\* the capture still waits for its audio context to close.
RestartWhileClosing ==
  /\ micClosing > 0
  /\ ~isRunning
  /\ \/ /\ therapyState = "active_therapy"
        /\ AudioBecomes(StartAudioPipeline(Audio, FALSE, FALSE))
     \/ /\ therapyState # "active_therapy"
        /\ AudioBecomes(SetState(Audio, "active_therapy", FALSE, FALSE))

\* C37: a start of the capture that follows a stop before the old audio
\* context has closed does not fail, and when the close completes while a
\* new capture holds a stream, the capture stays active with its context.
C37_RestartDuringCloseSucceeds ==
  [][/\ RestartWhileClosing => ~startRejected'
     /\ (micStream /\ ContextCloses) => (isCapturing' /\ micContext')
    ]_allVars

\* C38: after a speech-start has cancelled the playback and until the next
\* response_started, nothing is scheduled for playback and the set of
\* active sources is empty.
C38_NothingPlaysAfterBargeIn ==
  interrupted => (activeSources = {} /\ scheduled = <<>>)

\* C39: an audio chunk that is scheduled for playback leaves the inbound
\* state at Playing.
C39_ScheduledChunkMeansPlaying ==
  [][(AudioChunkArrives /\ sourceSeq' > sourceSeq) => inboundState' = "playing"]_allVars

\* C40: across the calibrations of one detector the RMS threshold never
\* decreases: the threshold a calibration produces is not below the
\* threshold in effect when it completed.
C40_CalibrationNeverLowersThreshold ==
  [][CalibrationCompletes => rmsThreshold' >= rmsThreshold]_allVars

====
